---------------------------- MODULE Spec2Model ----------------------------
(***************************************************************************)
(* Scheduling and availability engine of the salon booking backend:        *)
(* the slot calculator, the booking handlers (create, reschedule, status   *)
(* update, owner cancel) and the reservation store they read and write.    *)
(*                                                                         *)
(* A wall-clock string "HH:MM" is modelled as the pair <<HH, MM>>; the     *)
(* store compares such strings field by field, the controller converts     *)
(* them to minutes and back.                                               *)
(***************************************************************************)
EXTENDS Integers, Sequences, FiniteSets, TLC

(***************************************************************************)
(* Bounds of the model                                                     *)
(***************************************************************************)
MaxBookings == 2
MaxDay == 2
MaxReviews == 2

(***************************************************************************)
(* Program constants                                                       *)
(***************************************************************************)
slotInterval == 15
bookingBuffer == 5
MinutesPerHour == 60
MinutesPerDay == 1440
NoDate == 0

(***************************************************************************)
(* Calendar / time math                                                    *)
(***************************************************************************)
Max(a, b) == IF a >= b THEN a ELSE b

\* JavaScript's remainder takes the sign of the dividend.
JsRem(a, b) == IF a >= 0 THEN a % b ELSE -((-a) % b)

\* Math.ceil(a / b) for b > 0.
CeilDiv(a, b) == -((-a) \div b)

_minutesToTimeString(minutes) ==
    << minutes \div MinutesPerHour, JsRem(minutes, MinutesPerHour) >>

_timeStringToMinutes(timeStr) == timeStr[1] * MinutesPerHour + timeStr[2]

\* Order of two zero-padded "HH:MM" values as the store compares them.
TimeLt(s, t) == s[1] < t[1] \/ (s[1] = t[1] /\ s[2] < t[2])
TimeLe(s, t) == s = t \/ TimeLt(s, t)

\* new Date(`${date}T${start}`) + duration minutes, then toTimeString():
\* the clock time of the end, the date part is dropped.
EndTimeStr(start_time, duration) ==
    LET total == _timeStringToMinutes(start_time) + duration
    IN  _minutesToTimeString(total % MinutesPerDay)

(***************************************************************************)
(* State                                                                   *)
(***************************************************************************)
VARIABLES
    clock,      \* the server's local wall clock: [day, min]
    slotReq,    \* arguments of the latest _calculateAvailableSlots call
    slots,      \* what that call returned
    slotNow,    \* what new Date() returned inside that call
    bookings,   \* the bookings table: row id -> row
    response,   \* code of the response to the latest booking request
    inflight,   \* booking requests between two of their awaits
    cancelEffects, \* what the latest request did after persisting a cancellation
    reviews,    \* the reviews table: row id -> row
    salonRating, \* rating_average (in hundredths) and rating_count of each salon
    reviewResponse, \* code of the response to the latest review request
    recompute,  \* review requests between two awaits of _updateSalonRating
    waitlist,   \* the waitlist entries, oldest first
    services,   \* the services table: id -> row
    conversion, \* the latest round trip through the two time conversions
    slotsCountByDate, \* slots_count_by_date of the latest getAvailableSlotsCount
    settingsRows, \* the user_settings table: user id -> number of rows
    settingsCall, \* the updateUserSettings call of each request
    loginAttempts, \* global.loginAttempts: email -> { count, resetTime }
    accountLockouts, \* global.accountLockouts: email -> { until, attempts }
    bruteForceStore, \* global.bruteForceStore: ip -> { count, resetTime }
    authResponse  \* what the latest security middleware call did

slotVars == << clock, slotReq, slots, slotNow >>
storeVars == << bookings, response, cancelEffects >>
reviewVars == << reviews, salonRating, reviewResponse, recompute >>
settingsVars == << settingsRows, settingsCall >>
securityVars == << loginAttempts, accountLockouts, bruteForceStore, authResponse >>
platformVars == << conversion, slotsCountByDate, settingsVars, securityVars >>
vars == << clock, slotReq, slots, slotNow, bookings, response, inflight, cancelEffects, reviewVars, waitlist, services, platformVars >>

(***************************************************************************)
(* Input domains of the slot calculator                                    *)
(***************************************************************************)
Days == 1 .. MaxDay
\* The dates requests ask for, and their day of the week.
days == [d \in {1, 2} |-> IF d = 1 THEN "monday" ELSE "tuesday"]
ClockMinutes == {3, 606, 1050}
BusinessHours ==
    { [open |-> <<9, 0>>,  close |-> <<18, 0>>],
      [open |-> <<9, 10>>, close |-> <<10, 0>>],
      [open |-> <<10, 0>>, close |-> <<10, 0>>] }
Durations == {-30, 0, 30, 60}
BookedA == [start_time |-> <<10, 0>>,  end_time |-> <<10, 30>>]
BookedB == [start_time |-> <<14, 15>>, end_time |-> <<14, 45>>]
BookedLate == [start_time |-> <<23, 30>>, end_time |-> <<0, 30>>]
DayBookings == { {}, {BookedA}, {BookedB, BookedLate} }

(***************************************************************************)
(* AvailabilityCalculator                                                  *)
(***************************************************************************)
\* The test that only sees a booking starting inside the candidate.
hasConflictStartInside(currentTime, serviceDuration, existingBookings) ==
    \E booking \in existingBookings :
        LET bookingStart == _timeStringToMinutes(booking.start_time)
        IN  currentTime <= bookingStart /\ bookingStart < currentTime + serviceDuration

\* existingBookings.some(...): the candidate [currentTime, currentTime + d)
\* against every booking passed in.
hasConflict(currentTime, serviceDuration, existingBookings) ==
    \E booking \in existingBookings :
        LET bookingStart == _timeStringToMinutes(booking.start_time)
            bookingEnd == _timeStringToMinutes(booking.end_time)
        IN  currentTime < bookingEnd /\ currentTime + serviceDuration > bookingStart

\* The walk that stops one candidate early: a slot ending exactly at closing
\* time is not offered.
RECURSIVE SlotWalkBeforeClose(_, _, _, _)
SlotWalkBeforeClose(currentTime, endTime, serviceDuration, existingBookings) ==
    IF currentTime + serviceDuration < endTime
    THEN (IF hasConflict(currentTime, serviceDuration, existingBookings)
          THEN << >>
          ELSE << [start_time |-> _minutesToTimeString(currentTime),
                   end_time |-> _minutesToTimeString(currentTime + serviceDuration)] >>)
         \o SlotWalkBeforeClose(currentTime + slotInterval, endTime, serviceDuration,
                                existingBookings)
    ELSE << >>

\* The while loop of the calculator, from currentTime on.
RECURSIVE SlotWalk(_, _, _, _)
SlotWalk(currentTime, endTime, serviceDuration, existingBookings) ==
    IF currentTime + serviceDuration <= endTime
    THEN (IF hasConflict(currentTime, serviceDuration, existingBookings)
          THEN << >>
          ELSE << [start_time |-> _minutesToTimeString(currentTime),
                   end_time |-> _minutesToTimeString(currentTime + serviceDuration)] >>)
         \o SlotWalk(currentTime + slotInterval, endTime, serviceDuration,
                     existingBookings)
    ELSE << >>

\* The lower bound rounded down instead of up.
roundedMinBookingTimeFloor(currentMinutes) ==
    ((currentMinutes - bookingBuffer) \div slotInterval) * slotInterval

\* Lower bound of the walk when the requested date is today.
roundedMinBookingTime(currentMinutes) ==
    CeilDiv(currentMinutes - bookingBuffer, slotInterval) * slotInterval

\* The calculator applying the same-day cutoff whatever the requested date.
_calculateAvailableSlotsAlwaysToday(openTime, closeTime, serviceDuration, existingBookings, appointmentDate, now) ==
    LET opening == _timeStringToMinutes(openTime)
        endTime == _timeStringToMinutes(closeTime)
        currentTime == Max(opening, roundedMinBookingTime(now.min))
    IN  IF currentTime >= endTime
        THEN << >>
        ELSE SlotWalk(currentTime, endTime, serviceDuration, existingBookings)

\* `now` is what new Date() returns inside the call.
_calculateAvailableSlots(openTime, closeTime, serviceDuration, existingBookings, appointmentDate, now) ==
    LET opening == _timeStringToMinutes(openTime)
        endTime == _timeStringToMinutes(closeTime)
    IN  IF appointmentDate # NoDate /\ appointmentDate = now.day
        THEN LET currentTime == Max(opening, roundedMinBookingTime(now.min))
             IN  IF currentTime >= endTime
                 THEN << >>
                 ELSE SlotWalk(currentTime, endTime, serviceDuration, existingBookings)
        ELSE SlotWalk(opening, endTime, serviceDuration, existingBookings)

(***************************************************************************)
(* Actions of the slot calculator                                          *)
(***************************************************************************)
NoRequest ==
    [called |-> FALSE, openTime |-> <<0, 0>>, closeTime |-> <<0, 0>>,
     serviceDuration |-> 0, existingBookings |-> {}, appointmentDate |-> NoDate]

SlotInit ==
    /\ clock = [day |-> 1, min |-> 3]
    /\ slotReq = NoRequest
    /\ slots = << >>
    /\ slotNow = clock

\* Time passes on the server.
Tick ==
    /\ \E d \in Days, m \in ClockMinutes :
          /\ d > clock.day \/ (d = clock.day /\ m > clock.min)
          /\ clock' = [day |-> d, min |-> m]
    /\ UNCHANGED << slotReq, slots, slotNow, bookings, response, inflight, cancelEffects, reviewVars, waitlist, services, platformVars >>

CalculateAvailableSlots ==
    \E h \in BusinessHours, d \in Durations, ex \in DayBookings,
       date \in DOMAIN days \cup {NoDate} :
        /\ slotReq' = [called |-> TRUE, openTime |-> h.open, closeTime |-> h.close,
                       serviceDuration |-> d, existingBookings |-> ex,
                       appointmentDate |-> date]
        /\ slots' = _calculateAvailableSlots(h.open, h.close, d, ex, date, clock)
        /\ slotNow' = clock
        /\ UNCHANGED << clock, bookings, response, inflight, cancelEffects, reviewVars, waitlist, services, platformVars >>

(***************************************************************************)
(* Reference data and input domains of the booking handlers                *)
(***************************************************************************)
Users == {"alice", "owner", "staff", "eve"}
Clients == {"alice"}
\* A bound of a day's business hours as the JSON column holds it: a string
\* "HH:MM", nothing (undefined, null or ""), a string whose parts are not
\* numbers, or a value that is not a string at all.
TimeOfDay(h, m) == [kind |-> "time", hm |-> <<h, m>>]
Undefined == [kind |-> "undefined", hm |-> <<0, 0>>]
NotATime == [kind |-> "text", hm |-> <<0, 0>>]
ANumber == [kind |-> "number", hm |-> <<0, 0>>]

\* business_hours[dayOfWeek]: no entry, a closed day, or the two bounds (read
\* from open/opening and close/closing, or from the halves of "open-close").
NoHours == [present |-> FALSE, closed |-> FALSE, open |-> Undefined, close |-> Undefined]
ClosedDay == [present |-> TRUE, closed |-> TRUE, open |-> Undefined, close |-> Undefined]
OpenHours(o, c) == [present |-> TRUE, closed |-> FALSE, open |-> o, close |-> c]

\* The salons table. updateSalon stores the business_hours of the request
\* body as they come.
Salons ==
    [s1 |-> [owner_id |-> "owner", staff |-> {"staff"},
             business_hours |->
                 [monday  |-> OpenHours(TimeOfDay(9, 0), TimeOfDay(11, 0)),
                  tuesday |-> ClosedDay]],
     s3 |-> [owner_id |-> "owner", staff |-> {},
             business_hours |->
                 [monday  |-> NoHours,
                  tuesday |-> OpenHours(Undefined, TimeOfDay(18, 0))]],
     s4 |-> [owner_id |-> "owner", staff |-> {},
             business_hours |->
                 [monday  |-> OpenHours(TimeOfDay(9, 0), NotATime),
                  tuesday |-> OpenHours(ANumber, TimeOfDay(18, 0))]]]
SalonIds == {"s1", "s2"}
\* The salons getAvailableSlots is asked about.
ListedSalonIds == SalonIds \cup DOMAIN Salons
Services ==
    [cut   |-> [salon_id |-> "s1", duration |-> 15],
     color |-> [salon_id |-> "s1", duration |-> 45]]
ServiceIds == {"cut", "color", "gone"}
\* The (date, start time) pairs requests ask for.
RequestedSlots ==
    { [appointment_date |-> 1, start_time |-> <<10, 0>>],
      [appointment_date |-> 1, start_time |-> <<10, 15>>],
      [appointment_date |-> 2, start_time |-> <<10, 0>>] }
Procs == {1, 2}
validStatuses == {"pending", "confirmed", "completed", "cancelled", "no_show"}
RequestedStatuses == validStatuses \cup {"archived"}
BookingIds == 1 .. (MaxBookings + 1)

(***************************************************************************)
(* The bookings table and its queries                                      *)
(***************************************************************************)
Rows == DOMAIN bookings

\* The conflict query with closed intervals: a booking that only touches the
\* candidate counts as a conflict.
CreateConflictsClosed(rows, salon_id, appointment_date, start_time, endTimeStr) ==
    { id \in DOMAIN rows :
        /\ rows[id].salon_id = salon_id
        /\ rows[id].appointment_date = appointment_date
        /\ rows[id].status # "cancelled"
        /\ TimeLe(rows[id].start_time, endTimeStr)
        /\ TimeLe(start_time, rows[id].end_time) }

\* createBooking's conflict query:
\*   salon_id = ? AND appointment_date = ? AND status <> 'cancelled'
\*   AND start_time < endTimeStr AND end_time > start_time
CreateConflicts(rows, salon_id, appointment_date, start_time, endTimeStr) ==
    { id \in DOMAIN rows :
        /\ rows[id].salon_id = salon_id
        /\ rows[id].appointment_date = appointment_date
        /\ rows[id].status # "cancelled"
        /\ TimeLt(rows[id].start_time, endTimeStr)
        /\ TimeLt(start_time, rows[id].end_time) }

\* rescheduleBooking's conflict query. Each .or() adds one or=(...) parameter
\* to the request and the store ANDs the parameters:
\*   ... AND id <> ?
\*   AND (start_time <= start OR end_time >= endTimeStr)
\*   AND (start_time < endTimeStr OR end_time > start)
RescheduleConflicts(rows, salon_id, bookingId, appointment_date, start_time, endTimeStr) ==
    { id \in DOMAIN rows :
        /\ rows[id].salon_id = salon_id
        /\ rows[id].appointment_date = appointment_date
        /\ rows[id].status # "cancelled"
        /\ id # bookingId
        /\ (TimeLe(rows[id].start_time, start_time)
              \/ TimeLe(endTimeStr, rows[id].end_time))
        /\ (TimeLt(rows[id].start_time, endTimeStr)
              \/ TimeLt(start_time, rows[id].end_time)) }

\* staff_id left out of a request.
NoStaff == ""

\* The row createBooking inserts for a request that names no staff member.
NewBooking(user, salon_id, service_id, appointment_date, start_time, endTimeStr) ==
    [client_id |-> user, salon_id |-> salon_id, service_id |-> service_id,
     staff_id |-> NoStaff,
     appointment_date |-> appointment_date, start_time |-> start_time,
     end_time |-> endTimeStr, status |-> "confirmed"]

\* The bookings getAvailableSlots hands to the calculator: the salon's
\* non-cancelled bookings of the date, of one staff member when staff_id is
\* given.
ExistingBookings(rows, salon_id, date, staff_id) ==
    { [start_time |-> rows[id].start_time, end_time |-> rows[id].end_time] :
      id \in { i \in DOMAIN rows :
                 /\ rows[i].salon_id = salon_id
                 /\ rows[i].appointment_date = date
                 /\ rows[i].status # "cancelled"
                 /\ (staff_id # NoStaff => rows[i].staff_id = staff_id) } }

\* How the store answers a select: with the rows, or with an error.
ReadOutcomes == {"ok", "read_failed"}

\* The data field of a select's answer as the handlers use it. createBooking
\* destructures { data: conflicts } only and tests conflicts && conflicts.length;
\* getAvailableSlots takes existingBookings || [] and, on bookingsError, logs
\* and goes on with []. The data of a failed select is null.
QueryData(result, store) ==
    IF store = "read_failed" THEN {} ELSE result

\* Why createBooking stops before its conflict query, or "ok".
CreateLookup(salon_id, service_id) ==
    IF service_id \notin DOMAIN services THEN "SERVICE_NOT_FOUND"
    ELSE IF services[service_id].salon_id # salon_id THEN "SERVICE_NOT_FOUND"
    ELSE IF salon_id \notin DOMAIN Salons THEN "SALON_NOT_FOUND"
    ELSE "ok"

(***************************************************************************)
(* What a handler does once a cancellation is in the store                 *)
(***************************************************************************)
\* emailService.sendCancellationNotice: sends the mail, or logs the failure
\* and returns null; it never throws.
NoticeOutcomes == {"sent", "failed"}

\* waitlistController.processWaitlistForCancelledBooking offers the freed slot
\* to the waitlist; the call returns or throws.
DispatchOutcomes == {"done", "failed"}

\* The dispatch made before the update is written: the store still holds the
\* status read at the start of the request.
AfterCancelBeforeUpdate(booking, stored_status, notice, outcome) ==
    [salon_id |-> booking.salon_id, service_id |-> booking.service_id,
     appointment_date |-> booking.appointment_date,
     start_time |-> booking.start_time,
     stored_status |-> booking.status, notice |-> notice, outcome |-> outcome]

\* The cancellation notice and the waitlist dispatch of one request: the
\* arguments of processWaitlistForCancelledBooking, taken from the booking as
\* read before the update, and the status the row has in the store when the
\* call is made.
AfterCancel(booking, stored_status, notice, outcome) ==
    [salon_id |-> booking.salon_id, service_id |-> booking.service_id,
     appointment_date |-> booking.appointment_date,
     start_time |-> booking.start_time,
     stored_status |-> stored_status, notice |-> notice, outcome |-> outcome]

(***************************************************************************)
(* The waitlist and its dispatcher                                         *)
(***************************************************************************)
\* "You have 24 hours to book this slot", in minutes.
offerWindow == 1440

AddMinutes(now, minutes) ==
    [day |-> now.day + (now.min + minutes) \div MinutesPerDay,
     min |-> (now.min + minutes) % MinutesPerDay]

\* now is at or after the instant t.
TimeReached(now, t) ==
    now.day > t.day \/ (now.day = t.day /\ now.min >= t.min)

\* requestedTimeRange is optional.
NoTimeRange == [given |-> FALSE, from |-> <<0, 0>>, to |-> <<0, 0>>]
TimeRange(from, to) == [given |-> TRUE, from |-> from, to |-> to]
NoOffer == [day |-> 0, min |-> 0]

\* A new entry; createdAt is its place in the waitlist.
NewEntry(clientId, businessId, serviceId, requestedDate, requestedTimeRange) ==
    [clientId |-> clientId, businessId |-> businessId, serviceId |-> serviceId,
     requestedDate |-> requestedDate, requestedTimeRange |-> requestedTimeRange,
     status |-> "waiting", offeredStartTime |-> <<0, 0>>, offerExpiresAt |-> NoOffer]

\* The entry asks for the freed slot, whatever its status.
Matches(entry, businessId, serviceId, date, startTime) ==
    /\ entry.businessId = businessId
    /\ entry.serviceId = serviceId
    /\ entry.requestedDate = date
    /\ \/ ~entry.requestedTimeRange.given
       \/ /\ TimeLe(entry.requestedTimeRange.from, startTime)
          /\ TimeLe(startTime, entry.requestedTimeRange.to)

\* The entry holds an offer of the freed slot.
OfferedFor(entry, businessId, serviceId, date, startTime) ==
    /\ entry.status = "offered"
    /\ entry.businessId = businessId
    /\ entry.serviceId = serviceId
    /\ entry.requestedDate = date
    /\ entry.offeredStartTime = startTime

\* The sweep that lets a lapsed offer stand.
ExpireNoOffer(wl, businessId, serviceId, date, startTime, now) ==
    wl

\* The lazy expiry check of a dispatch: the slot's offers whose window is over
\* become expired.
ExpireOffers(wl, businessId, serviceId, date, startTime, now) ==
    [i \in DOMAIN wl |->
        IF /\ OfferedFor(wl[i], businessId, serviceId, date, startTime)
           /\ TimeReached(now, wl[i].offerExpiresAt)
        THEN [wl[i] EXCEPT !.status = "expired"]
        ELSE wl[i]]

\* The dispatcher that does not look for an outstanding offer.
HasActiveOfferUnseen(wl, businessId, serviceId, date, startTime) ==
    FALSE

\* An offer of the freed slot is outstanding.
HasActiveOffer(wl, businessId, serviceId, date, startTime) ==
    \E i \in DOMAIN wl : OfferedFor(wl[i], businessId, serviceId, date, startTime)

\* The newest of the entries.
NewestOf(entries) ==
    CHOOSE i \in entries : \A j \in entries : i >= j

\* The entry created first.
OldestOf(entries) ==
    CHOOSE i \in entries : \A j \in entries : i <= j

\* The waiting entries the freed slot can be offered to.
Eligible(wl, businessId, serviceId, date, startTime) ==
    { i \in DOMAIN wl : /\ wl[i].status = "waiting"
                        /\ Matches(wl[i], businessId, serviceId, date, startTime) }

\* processWaitlistForCancelledBooking(salon_id, service_id, appointment_date,
\* start_time), run as one unit: lapsed offers of the slot expire; unless an
\* offer of the slot is outstanding, the oldest eligible entry is offered it
\* for the offer window.
processWaitlistForCancelledBooking(wl, businessId, serviceId, date, startTime, now) ==
    LET swept == ExpireOffers(wl, businessId, serviceId, date, startTime, now)
        eligible == Eligible(swept, businessId, serviceId, date, startTime)
    IN  IF HasActiveOffer(swept, businessId, serviceId, date, startTime) THEN swept
        ELSE IF eligible = {} THEN swept
        ELSE [swept EXCEPT ![OldestOf(eligible)] =
                 [@ EXCEPT !.status = "offered",
                           !.offeredStartTime = startTime,
                           !.offerExpiresAt = AddMinutes(now, offerWindow)]]

\* The waitlist after a handler's dispatch: a dispatch that failed left it as
\* it was.
DispatchedWaitlist(wl, effects, now) ==
    IF effects = << >> THEN wl
    ELSE IF effects[1].outcome # "done" THEN wl
    ELSE processWaitlistForCancelledBooking(wl, effects[1].salon_id,
             effects[1].service_id, effects[1].appointment_date,
             effects[1].start_time, now)

(***************************************************************************)
(* Booking handlers, one request at a time                                 *)
(***************************************************************************)
StoreInit ==
    /\ bookings = << >>
    /\ response = "none"
    /\ cancelEffects = << >>

Reject(code) ==
    /\ response' = code
    /\ cancelEffects' = << >>
    /\ UNCHANGED bookings

CreateBooking(user, salon_id, service_id, staff_id, appointment_date, start_time, store) ==
    /\ IF CreateLookup(salon_id, service_id) # "ok"
       THEN Reject(CreateLookup(salon_id, service_id))
       ELSE LET endTimeStr == EndTimeStr(start_time, services[service_id].duration)
                conflicts == QueryData(CreateConflicts(bookings, salon_id,
                                 appointment_date, start_time, endTimeStr), store)
            IN  IF conflicts # {}
                THEN Reject("TIME_SLOT_CONFLICT")
                ELSE /\ Len(bookings) < MaxBookings
                     /\ bookings' = Append(bookings,
                            [NewBooking(user, salon_id, service_id, appointment_date,
                                        start_time, endTimeStr)
                                EXCEPT !.staff_id = staff_id])
                     /\ response' = "created"
                     /\ cancelEffects' = << >>
    /\ UNCHANGED << slotVars, inflight, reviewVars, waitlist, services, platformVars >>

\* The update that leaves the status as it was.
RescheduledKeepingStatus(booking, appointment_date, start_time, endTimeStr) ==
    [booking EXCEPT !.appointment_date = appointment_date,
                    !.start_time = start_time,
                    !.end_time = endTimeStr]

\* The row after rescheduleBooking's update of appointment_date, start_time,
\* end_time and status.
Rescheduled(booking, appointment_date, start_time, endTimeStr) ==
    [booking EXCEPT !.appointment_date = appointment_date,
                    !.start_time = start_time,
                    !.end_time = endTimeStr,
                    !.status = "pending"]

\* The checks without the one on the booking's status.
RescheduleRefusalAnyStatus(user, bookingId) ==
    IF bookingId \notin Rows THEN "BOOKING_NOT_FOUND"
    ELSE IF bookings[bookingId].client_id # user THEN "INSUFFICIENT_PERMISSIONS"
    ELSE "ok"

\* Why rescheduleBooking stops before its conflict query, or "ok".
RescheduleRefusal(user, bookingId) ==
    IF bookingId \notin Rows THEN "BOOKING_NOT_FOUND"
    ELSE IF bookings[bookingId].client_id # user THEN "INSUFFICIENT_PERMISSIONS"
    ELSE IF bookings[bookingId].status \notin {"pending", "confirmed"}
    THEN "INVALID_STATUS"
    ELSE "ok"

RescheduleBooking(user, bookingId, appointment_date, start_time) ==
    /\ IF RescheduleRefusal(user, bookingId) # "ok"
       THEN Reject(RescheduleRefusal(user, bookingId))
       ELSE LET booking == bookings[bookingId]
                endTimeStr ==
                    EndTimeStr(start_time, services[booking.service_id].duration)
            IN  IF RescheduleConflicts(bookings, booking.salon_id, bookingId,
                                       appointment_date, start_time,
                                       endTimeStr) # {}
                THEN Reject("TIME_SLOT_CONFLICT")
                ELSE /\ bookings' = [bookings EXCEPT ![bookingId] =
                            Rescheduled(booking, appointment_date, start_time,
                                        endTimeStr)]
                     /\ response' = "rescheduled"
                     /\ cancelEffects' = << >>
    /\ UNCHANGED << slotVars, inflight, reviewVars, waitlist, services, platformVars >>

\* The permission checks without the rule that a client may only cancel.
StatusPermissionNoClientRule(isOwner, isClient, isStaff, status) ==
    IF ~isOwner /\ ~isClient /\ ~isStaff THEN "INSUFFICIENT_PERMISSIONS"
    ELSE "ok"

\* The permission checks without the one that stops a stranger.
StatusPermissionAnyone(isOwner, isClient, isStaff, status) ==
    IF isClient /\ ~isOwner /\ ~isStaff /\ status # "cancelled"
    THEN "CLIENT_CAN_ONLY_CANCEL"
    ELSE "ok"

\* updateBookingStatus: who may ask for which target status.
StatusPermission(isOwner, isClient, isStaff, status) ==
    IF ~isOwner /\ ~isClient /\ ~isStaff THEN "INSUFFICIENT_PERMISSIONS"
    ELSE IF isClient /\ ~isOwner /\ ~isStaff /\ status # "cancelled"
    THEN "CLIENT_CAN_ONLY_CANCEL"
    ELSE "ok"

UpdateBookingStatus(user, bookingId, status) ==
    /\ IF status \notin validStatuses THEN Reject("INVALID_STATUS")
       ELSE IF bookingId \notin Rows THEN Reject("BOOKING_NOT_FOUND")
       ELSE LET booking == bookings[bookingId]
                isOwner == Salons[booking.salon_id].owner_id = user
                isClient == booking.client_id = user
                isStaff == ~isOwner /\ ~isClient
                           /\ user \in Salons[booking.salon_id].staff
                permission == StatusPermission(isOwner, isClient, isStaff, status)
            IN  IF permission # "ok" THEN Reject(permission)
                ELSE /\ bookings' = [bookings EXCEPT ![bookingId].status = status]
                     /\ IF status = "cancelled"
                        THEN \E notice \in NoticeOutcomes, outcome \in DispatchOutcomes :
                               /\ cancelEffects' =
                                      << AfterCancel(booking, bookings'[bookingId].status,
                                                     notice, outcome) >>
                               /\ response' = IF outcome = "failed"
                                              THEN "BOOKING_UPDATE_FAILED"
                                              ELSE "status_updated"
                        ELSE /\ cancelEffects' = << >>
                             /\ response' = "status_updated"
    /\ waitlist' = IF response' \in {"status_updated", "BOOKING_UPDATE_FAILED"}
                   THEN DispatchedWaitlist(waitlist, cancelEffects', clock)
                   ELSE waitlist
    /\ UNCHANGED << slotVars, inflight, reviewVars, services, platformVars >>

CancelBookingAsSalonOwner(user, bookingId) ==
    /\ IF bookingId \notin Rows THEN Reject("BOOKING_NOT_FOUND")
       ELSE LET booking == bookings[bookingId]
            IN  IF Salons[booking.salon_id].owner_id # user
                THEN Reject("INSUFFICIENT_PERMISSIONS")
                ELSE IF booking.status = "cancelled"
                THEN Reject("BOOKING_ALREADY_CANCELLED")
                ELSE /\ bookings' = [bookings EXCEPT ![bookingId].status = "cancelled"]
                     /\ \E notice \in NoticeOutcomes, outcome \in DispatchOutcomes :
                           cancelEffects' =
                               << AfterCancel(booking, bookings'[bookingId].status,
                                              notice, outcome) >>
                     /\ response' = "owner_cancelled"
    /\ waitlist' = IF response' = "owner_cancelled"
                   THEN DispatchedWaitlist(waitlist, cancelEffects', clock)
                   ELSE waitlist
    /\ UNCHANGED << slotVars, inflight, reviewVars, services, platformVars >>

\* openTime.split(':') inside the calculator: a bound that is not a string has
\* no split, the TypeError leaves the calculator and getAvailableSlots turns
\* it into AVAILABLE_SLOTS_FETCH_FAILED.
SplitThrows(openTime, closeTime) ==
    openTime.kind = "number" \/ closeTime.kind = "number"

\* isNaN(...) of the parsed hours and minutes: the calculator returns [].
InvalidTimeFormat(openTime, closeTime) ==
    openTime.kind = "text" \/ closeTime.kind = "text"

\* getAvailableSlots: the day's non-cancelled bookings of the salon and its
\* business hours for that day of the week, handed to the calculator.
\* slotReq records the call only when the calculator gets to walk.
GetAvailableSlots(salon_id, service_id, date, staff_id, store) ==
    /\ IF service_id \notin DOMAIN services
       THEN /\ response' = "SERVICE_NOT_FOUND"
            /\ UNCHANGED << slotReq, slots, slotNow >>
       ELSE IF salon_id \notin DOMAIN Salons
       THEN /\ response' = "SALON_NOT_FOUND"
            /\ UNCHANGED << slotReq, slots, slotNow >>
       ELSE LET existing == QueryData(ExistingBookings(bookings, salon_id, date,
                                                       staff_id), store)
                businessHours == Salons[salon_id].business_hours[days[date]]
                openTime == businessHours.open
                closeTime == businessHours.close
                duration == services[service_id].duration
            IN  IF ~businessHours.present \/ businessHours.closed
                THEN /\ response' = "slots_listed"
                     /\ slots' = << >>
                     /\ slotReq' = NoRequest
                     /\ slotNow' = clock
                ELSE IF openTime.kind = "undefined" \/ closeTime.kind = "undefined"
                THEN /\ response' = "slots_listed"
                     /\ slots' = << >>
                     /\ slotReq' = NoRequest
                     /\ slotNow' = clock
                ELSE IF SplitThrows(openTime, closeTime)
                THEN /\ response' = "AVAILABLE_SLOTS_FETCH_FAILED"
                     /\ UNCHANGED << slotReq, slots, slotNow >>
                ELSE IF InvalidTimeFormat(openTime, closeTime)
                THEN /\ response' = "slots_listed"
                     /\ slots' = << >>
                     /\ slotReq' = NoRequest
                     /\ slotNow' = clock
                ELSE /\ response' = "slots_listed"
                     /\ slotNow' = clock
                     /\ slots' = _calculateAvailableSlots(openTime.hm, closeTime.hm,
                                      duration, existing, date, clock)
                     /\ slotReq' = [called |-> TRUE,
                                    openTime |-> openTime.hm,
                                    closeTime |-> closeTime.hm,
                                    serviceDuration |-> duration,
                                    existingBookings |-> existing,
                                    appointmentDate |-> date]
    /\ cancelEffects' = << >>
    /\ UNCHANGED << clock, bookings, inflight, reviewVars, waitlist, services, platformVars >>

CreateRequest ==
    \E user \in Clients, salon_id \in SalonIds, service_id \in ServiceIds,
       slot \in RequestedSlots :
        CreateBooking(user, salon_id, service_id, NoStaff, slot.appointment_date,
                      slot.start_time, "ok")

RescheduleRequest ==
    \E user \in Users, bookingId \in BookingIds, slot \in RequestedSlots :
        RescheduleBooking(user, bookingId, slot.appointment_date, slot.start_time)

StatusRequest ==
    \E user \in Users, bookingId \in BookingIds, status \in RequestedStatuses :
        UpdateBookingStatus(user, bookingId, status)

OwnerCancelRequest ==
    \E user \in Users, bookingId \in BookingIds :
        CancelBookingAsSalonOwner(user, bookingId)

SlotsRequest ==
    \E salon_id \in ListedSalonIds, service_id \in ServiceIds, date \in DOMAIN days :
        GetAvailableSlots(salon_id, service_id, date, NoStaff, "ok")

(***************************************************************************)
(* Specifications                                                          *)
(***************************************************************************)
NoInflight == [p \in {} |-> 0]

\* A request that is not inside _updateSalonRating.
NotRecomputing == [pc |-> "idle", salonId |-> "", reviewCount |-> 0, sum |-> 0]

\* No review yet, and the aggregates of a salon nobody reviewed.
ReviewInit ==
    /\ reviews = << >>
    /\ salonRating = [salon_id \in DOMAIN Salons |->
                          [rating_average |-> 0, rating_count |-> 0]]
    /\ reviewResponse = "none"
    /\ recompute = [p \in Procs |-> NotRecomputing]

\* Nobody waits, and the services as the salons set them up.
CatalogInit ==
    /\ waitlist = << >>
    /\ services = Services

\* No conversion was asked for yet.
NoConversion == [of |-> "none", minutes |-> 0, timeStr |-> << >>]

\* A request that is not inside updateUserSettings.
NoSettingsCall == [pc |-> "idle", userId |-> "", updates |-> 0, creates |-> 0]

\* Nobody has settings yet.
SettingsInit ==
    /\ settingsRows = [userId \in Users |-> 0]
    /\ settingsCall = [p \in Procs |-> NoSettingsCall]

\* The in-memory stores of the security middleware before their first use.
NoEntries == [k \in {} |-> 0]

SecurityInit ==
    /\ loginAttempts = NoEntries
    /\ accountLockouts = NoEntries
    /\ bruteForceStore = NoEntries
    /\ authResponse = "none"

\* No count was asked for yet.
NoCounts == [d \in {} |-> 0]

PlatformInit ==
    /\ conversion = [input |-> NoConversion, output |-> NoConversion,
                     back |-> NoConversion]
    /\ slotsCountByDate = NoCounts
    /\ SettingsInit
    /\ SecurityInit

Init ==
    /\ SlotInit
    /\ StoreInit
    /\ inflight = NoInflight
    /\ ReviewInit
    /\ CatalogInit
    /\ PlatformInit

\* The booking handlers, requests served one at a time.
Next ==
    \/ RescheduleRequest
    \/ StatusRequest
    \/ OwnerCancelRequest
    \/ CreateRequest

Spec == Init /\ [][Next]_vars

\* Booking, cancelling and listing the free slots, one request at a time.
NextAvail ==
    \/ CreateRequest
    \/ OwnerCancelRequest
    \/ SlotsRequest

SpecAvail == Init /\ [][NextAvail]_vars

\* Requests for a cut at 10:00 on either date.
CreateCutRequest ==
    \E user \in Clients, appointment_date \in DOMAIN days :
        CreateBooking(user, "s1", "cut", NoStaff, appointment_date, <<10, 0>>, "ok")

\* Booking and the status changes, one request at a time.
NextLifecycle ==
    \/ StatusRequest
    \/ OwnerCancelRequest
    \/ CreateCutRequest

SpecLifecycle == Init /\ [][NextLifecycle]_vars

\* Booking, cancelling and rescheduling, one request at a time.
NextReschedule ==
    \/ RescheduleRequest
    \/ OwnerCancelRequest
    \/ CreateRequest

SpecReschedule == Init /\ [][NextReschedule]_vars

(***************************************************************************)
(* createBooking requests served concurrently: the handler awaits the      *)
(* store between its conflict query and its insert, and another request    *)
(* may run in between.                                                     *)
(***************************************************************************)
ReceiveCreate(p, user, salon_id, service_id, appointment_date, start_time) ==
    /\ p \notin DOMAIN inflight
    /\ LET lookup == CreateLookup(salon_id, service_id)
           req == [user |-> user, salon_id |-> salon_id, service_id |-> service_id,
                   appointment_date |-> appointment_date, start_time |-> start_time,
                   endTimeStr |-> IF lookup = "ok"
                                  THEN EndTimeStr(start_time,
                                                  services[service_id].duration)
                                  ELSE start_time,
                   pc |-> IF lookup = "ok" THEN "query" ELSE "done",
                   outcome |-> IF lookup = "ok" THEN "none" ELSE lookup]
       IN  inflight' = [q \in DOMAIN inflight \cup {p} |->
                            IF q = p THEN req ELSE inflight[q]]
    /\ UNCHANGED << slotVars, storeVars, reviewVars, waitlist, services, platformVars >>

ConflictQuery(p) ==
    /\ p \in DOMAIN inflight
    /\ inflight[p].pc = "query"
    /\ LET r == inflight[p]
       IN  IF CreateConflicts(bookings, r.salon_id, r.appointment_date, r.start_time,
                              r.endTimeStr) # {}
           THEN inflight' = [inflight EXCEPT ![p].pc = "done",
                                             ![p].outcome = "TIME_SLOT_CONFLICT"]
           ELSE inflight' = [inflight EXCEPT ![p].pc = "insert"]
    /\ UNCHANGED << slotVars, storeVars, reviewVars, waitlist, services, platformVars >>

InsertBooking(p) ==
    /\ p \in DOMAIN inflight
    /\ inflight[p].pc = "insert"
    /\ Len(bookings) < MaxBookings
    /\ LET r == inflight[p]
       IN  bookings' = Append(bookings,
               NewBooking(r.user, r.salon_id, r.service_id, r.appointment_date,
                          r.start_time, r.endTimeStr))
    /\ inflight' = [inflight EXCEPT ![p].pc = "done", ![p].outcome = "created"]
    /\ UNCHANGED << slotVars, response, cancelEffects, reviewVars, waitlist, services, platformVars >>

NextRace ==
    \/ \E p \in Procs, user \in Clients, salon_id \in SalonIds,
          service_id \in ServiceIds, slot \in RequestedSlots :
            ReceiveCreate(p, user, salon_id, service_id, slot.appointment_date,
                          slot.start_time)
    \/ \E p \in Procs : ConflictQuery(p)
    \/ \E p \in Procs : InsertBooking(p)

SpecRace == Init /\ [][NextRace]_vars

\* The slot calculator called with arbitrary arguments while time passes.
NextSlots ==
    \/ Tick
    \/ CalculateAvailableSlots

SpecSlots == Init /\ [][NextSlots]_vars

(***************************************************************************)
(* ReviewController                                                        *)
(***************************************************************************)
\* booking_id left out of a request body.
NoBooking == 0

\* A rating as the request body carries it: a number, a string (its
\* characters), or nothing.
JsNumber(n) == [kind |-> "number", value |-> n, text |-> << >>]
JsString(chars) == [kind |-> "string", value |-> 0, text |-> chars]
NoRating == [kind |-> "undefined", value |-> 0, text |-> << >>]

\* The result of a numeric conversion: a number or NaN.
NotANumber == [nan |-> TRUE, value |-> 0]
Finite(n) == [nan |-> FALSE, value |-> n]

Digits == << "0", "1", "2", "3", "4", "5", "6", "7", "8", "9" >>
IsDigit(c) == \E d \in DOMAIN Digits : Digits[d] = c
DigitValue(c) == (CHOOSE d \in DOMAIN Digits : Digits[d] = c) - 1

\* How many characters a decimal parse takes from the front of the text.
RECURSIVE LeadingDigitCount(_)
LeadingDigitCount(chars) ==
    IF chars = << >> THEN 0
    ELSE IF ~IsDigit(Head(chars)) THEN 0
    ELSE 1 + LeadingDigitCount(Tail(chars))

RECURSIVE DecimalValue(_)
DecimalValue(chars) ==
    IF chars = << >> THEN 0
    ELSE 10 * DecimalValue(SubSeq(chars, 1, Len(chars) - 1))
           + DigitValue(chars[Len(chars)])

\* The number a comparison with a number turns its other operand into: the
\* whole string has to be a numeral (here: digits), and "" is 0.
ToNumber(v) ==
    IF v.kind = "number" THEN Finite(v.value)
    ELSE IF v.kind = "undefined" THEN NotANumber
    ELSE IF LeadingDigitCount(v.text) = Len(v.text) THEN Finite(DecimalValue(v.text))
    ELSE NotANumber

\* parseInt: the value of the leading digits of the argument's text, whatever
\* follows them, and NaN when it starts with none.
parseInt(v) ==
    IF v.kind = "number" THEN Finite(v.value)
    ELSE IF v.kind = "undefined" THEN NotANumber
    ELSE IF LeadingDigitCount(v.text) = 0 THEN NotANumber
    ELSE Finite(DecimalValue(SubSeq(v.text, 1, LeadingDigitCount(v.text))))

\* !v
Falsy(v) ==
    \/ v.kind = "undefined"
    \/ v.kind = "number" /\ v.value = 0
    \/ v.kind = "string" /\ v.text = << >>

\* v < n and v > n: false when v converts to NaN.
JsLt(v, n) == ~ToNumber(v).nan /\ ToNumber(v).value < n
JsGt(v, n) == ~ToNumber(v).nan /\ ToNumber(v).value > n

\* The rating column of a row written with rating: parseInt(rating). NaN goes
\* over the wire as null, which the reduce of _updateSalonRating adds as 0.
NullRating == 0
StoredRating(rating) ==
    IF parseInt(rating).nan THEN NullRating ELSE parseInt(rating).value

Reviewers == {"alice", "eve"}
ReviewedSalonIds == {"s1", "s3"}
\* Ratings asked for: the numbers 0, 2 and 6 and the string "9a".
RequestedRatings == { JsNumber(0), JsNumber(2), JsNumber(6), JsString(<< "9", "a" >>) }
ReviewIds == 1 .. (MaxReviews + 1)

\* What the store answers to a handler: every call succeeds, the write of the
\* review fails, or one of the two calls of _updateSalonRating fails.
StoreOutcomes == {"ok", "write_failed", "read_failed", "update_failed"}

\* The bookings the reviews are about: alice's completed cut of date 1 and her
\* confirmed cut of date 2, which is still to come.
PastBookings ==
    << [NewBooking("alice", "s1", "cut", 1, <<10, 0>>, <<10, 15>>)
           EXCEPT !.status = "completed"],
       NewBooking("alice", "s1", "cut", 2, <<10, 0>>, <<10, 15>>) >>

\* new Date(`${appointment_date}T${start_time}`) > new Date()
BookingIsAhead(booking) ==
    \/ booking.appointment_date > clock.day
    \/ /\ booking.appointment_date = clock.day
       /\ _timeStringToMinutes(booking.start_time) > clock.min

\* Why createReview stops before its insert, or "ok".
CreateReviewRefusal(clientId, salon_id, booking_id, rating) ==
    IF Falsy(rating) THEN "MISSING_REQUIRED_FIELDS"
    ELSE IF JsLt(rating, 1) \/ JsGt(rating, 5) THEN "INVALID_RATING"
    ELSE IF booking_id # NoBooking
    THEN (IF booking_id \notin Rows THEN "BOOKING_NOT_FOUND"
          ELSE IF bookings[booking_id].client_id # clientId THEN "BOOKING_NOT_FOUND"
          ELSE IF BookingIsAhead(bookings[booking_id])
                  /\ bookings[booking_id].status # "completed"
          THEN "BOOKING_NOT_COMPLETED"
          ELSE IF \E r \in DOMAIN reviews : reviews[r].booking_id = booking_id
          THEN "REVIEW_ALREADY_EXISTS"
          ELSE IF bookings[booking_id].salon_id # salon_id THEN "INVALID_SALON"
          ELSE "ok")
    ELSE IF ~\E b \in Rows : /\ bookings[b].salon_id = salon_id
                              /\ bookings[b].client_id = clientId
                              /\ bookings[b].status = "completed"
    THEN "NO_COMPLETED_BOOKINGS"
    ELSE "ok"

\* The visible reviews of a salon.
VisibleReviews(rows, salonId) ==
    { r \in DOMAIN rows : rows[r].salon_id = salonId /\ rows[r].is_visible }

\* reviews.reduce((acc, review) => acc + review.rating, 0) over the first n rows.
RECURSIVE SumOfRatings(_, _, _)
SumOfRatings(rows, salonId, n) ==
    IF n = 0 THEN 0
    ELSE SumOfRatings(rows, salonId, n - 1)
           + (IF n \in VisibleReviews(rows, salonId) THEN rows[n].rating ELSE 0)

\* parseFloat((sum / reviewCount).toFixed(2)) in hundredths. toFixed takes the
\* nearest two-decimal number and the larger one on a tie; with fewer than 40
\* ratings a tie is a multiple of 1/8, which a double holds exactly.
averageRating(sum, reviewCount) ==
    IF reviewCount = 0 THEN 0
    ELSE (200 * sum + reviewCount) \div (2 * reviewCount)

\* The recompute that adds the latest review to the aggregates it finds.
_updateSalonRatingRunning(rating, rows, salonId, store) ==
    IF store # "ok" \/ salonId \notin DOMAIN rating THEN rating
    ELSE LET reviewCount == rating[salonId].rating_count + 1
             sum == SumOfRatings(rows, salonId, Len(rows))
         IN  [rating EXCEPT ![salonId] =
                 [rating_average |-> averageRating(sum, reviewCount),
                  rating_count |-> reviewCount]]

\* _updateSalonRating: a full recompute over the visible reviews. When the
\* read or the update fails the error is logged and the salon keeps the
\* aggregates it had.
_updateSalonRating(rating, rows, salonId, store) ==
    IF store # "ok" \/ salonId \notin DOMAIN rating THEN rating
    ELSE LET reviewCount == Cardinality(VisibleReviews(rows, salonId))
             sum == SumOfRatings(rows, salonId, Len(rows))
         IN  [rating EXCEPT ![salonId] =
                 [rating_average |-> averageRating(sum, reviewCount),
                  rating_count |-> reviewCount]]

RejectReview(code) ==
    /\ reviewResponse' = code
    /\ UNCHANGED << reviews, salonRating >>

CreateReview(clientId, salon_id, booking_id, rating, store) ==
    /\ IF CreateReviewRefusal(clientId, salon_id, booking_id, rating) # "ok"
       THEN RejectReview(CreateReviewRefusal(clientId, salon_id, booking_id, rating))
       ELSE IF store = "write_failed" THEN RejectReview("REVIEW_CREATION_FAILED")
       ELSE /\ Len(reviews) < MaxReviews
            /\ reviews' = Append(reviews,
                   [client_id |-> clientId, salon_id |-> salon_id,
                    booking_id |-> booking_id, rating |-> StoredRating(rating),
                    is_visible |-> TRUE])
            /\ salonRating' = _updateSalonRating(salonRating, reviews', salon_id, store)
            /\ reviewResponse' = "review_created"
    /\ UNCHANGED << slotVars, storeVars, inflight, recompute, waitlist, services, platformVars >>

UpdateReview(clientId, reviewId, rating, store) ==
    /\ IF reviewId \notin DOMAIN reviews THEN RejectReview("REVIEW_NOT_FOUND")
       ELSE IF reviews[reviewId].client_id # clientId
       THEN RejectReview("REVIEW_NOT_FOUND")
       ELSE IF rating # NoRating /\ (JsLt(rating, 1) \/ JsGt(rating, 5))
       THEN RejectReview("INVALID_RATING")
       ELSE IF store = "write_failed" THEN RejectReview("REVIEW_UPDATE_FAILED")
       ELSE /\ reviews' = IF rating = NoRating THEN reviews
                          ELSE [reviews EXCEPT ![reviewId].rating = StoredRating(rating)]
            /\ salonRating' = _updateSalonRating(salonRating, reviews',
                                   reviews[reviewId].salon_id, store)
            /\ reviewResponse' = "review_updated"
    /\ UNCHANGED << slotVars, storeVars, inflight, recompute, waitlist, services, platformVars >>

DeleteReview(clientId, reviewId, store) ==
    /\ IF reviewId \notin DOMAIN reviews THEN RejectReview("REVIEW_NOT_FOUND")
       ELSE IF reviews[reviewId].client_id # clientId
       THEN RejectReview("REVIEW_NOT_FOUND")
       ELSE IF store = "write_failed" THEN RejectReview("REVIEW_DELETE_FAILED")
       ELSE /\ reviews' = [reviews EXCEPT ![reviewId].is_visible = FALSE]
            /\ salonRating' = _updateSalonRating(salonRating, reviews',
                                   reviews[reviewId].salon_id, store)
            /\ reviewResponse' = "review_deleted"
    /\ UNCHANGED << slotVars, storeVars, inflight, recompute, waitlist, services, platformVars >>

CreateReviewRequest ==
    \E clientId \in Reviewers, salon_id \in ReviewedSalonIds,
       booking_id \in BookingIds \cup {NoBooking}, rating \in RequestedRatings,
       store \in StoreOutcomes :
        CreateReview(clientId, salon_id, booking_id, rating, store)

UpdateReviewRequest ==
    \E clientId \in Reviewers, reviewId \in ReviewIds,
       rating \in RequestedRatings \cup {NoRating}, store \in StoreOutcomes :
        UpdateReview(clientId, reviewId, rating, store)

DeleteReviewRequest ==
    \E clientId \in Reviewers, reviewId \in ReviewIds, store \in StoreOutcomes :
        DeleteReview(clientId, reviewId, store)

\* The review handlers, one request at a time, over bookings made earlier.
InitReviews ==
    /\ SlotInit
    /\ bookings = PastBookings
    /\ response = "none"
    /\ cancelEffects = << >>
    /\ inflight = NoInflight
    /\ ReviewInit
    /\ CatalogInit
    /\ PlatformInit

NextReviews ==
    \/ CreateReviewRequest
    \/ UpdateReviewRequest
    \/ DeleteReviewRequest

SpecReviews == InitReviews /\ [][NextReviews]_vars

(***************************************************************************)
(* Properties                                                              *)
(***************************************************************************)
Minutes(t) == t[1] * MinutesPerHour + t[2]

\* Half-open intervals [s1, e1) and [s2, e2) intersect.
HalfOpenOverlap(s1, e1, s2, e2) == s1 < e2 /\ s2 < e1

\* Another non-cancelled booking of the same salon on `date` intersects
\* [start, start + duration of the booking's service).
OverlapsAnother(bookingId, date, start_time) ==
    \E other \in Rows \ {bookingId} :
        /\ bookings[other].salon_id = bookings[bookingId].salon_id
        /\ bookings[other].appointment_date = date
        /\ bookings[other].status # "cancelled"
        /\ HalfOpenOverlap(Minutes(start_time),
               Minutes(start_time) + Services[bookings[bookingId].service_id].duration,
               Minutes(bookings[other].start_time), Minutes(bookings[other].end_time))

\* The reschedule request gets as far as the conflict query.
OwnReschedulable(user, bookingId) ==
    /\ bookingId \in Rows
    /\ bookings[bookingId].client_id = user
    /\ bookings[bookingId].status \in {"pending", "confirmed"}

\* C1: of two concurrent createBooking requests for the same slot of the same
\* salon and date, exactly one is answered "created" and the other
\* TIME_SLOT_CONFLICT, whatever the interleaving of their queries and inserts.
C1_ExactlyOneSucceeds ==
    \A p \in DOMAIN inflight, q \in DOMAIN inflight :
        ( /\ p < q
          /\ inflight[p].pc = "done" /\ inflight[q].pc = "done"
          /\ inflight[p].outcome \in {"created", "TIME_SLOT_CONFLICT"}
          /\ inflight[q].outcome \in {"created", "TIME_SLOT_CONFLICT"}
          /\ inflight[p].salon_id = inflight[q].salon_id
          /\ inflight[p].appointment_date = inflight[q].appointment_date
          /\ inflight[p].start_time = inflight[q].start_time
          /\ inflight[p].endTimeStr = inflight[q].endTimeStr )
        => {inflight[p].outcome, inflight[q].outcome}
               = {"created", "TIME_SLOT_CONFLICT"}

\* C2: no two non-cancelled bookings of the same salon and date have
\* intersecting half-open intervals [start_time, end_time).
C2_NoOverlappingReservations ==
    \A i \in Rows, j \in Rows :
        ( /\ i < j
          /\ bookings[i].salon_id = bookings[j].salon_id
          /\ bookings[i].appointment_date = bookings[j].appointment_date
          /\ bookings[i].status # "cancelled"
          /\ bookings[j].status # "cancelled" )
        => ~HalfOpenOverlap(Minutes(bookings[i].start_time),
                            Minutes(bookings[i].end_time),
                            Minutes(bookings[j].start_time),
                            Minutes(bookings[j].end_time))

\* C3: a reschedule by the booking's client of a pending or confirmed booking
\* onto an interval that intersects another non-cancelled booking of the salon
\* on the new date is answered TIME_SLOT_CONFLICT and changes no booking.
C3_RescheduleRejectsOverlap ==
    [][\A user \in Users, bookingId \in BookingIds, slot \in RequestedSlots :
          ( /\ OwnReschedulable(user, bookingId)
            /\ OverlapsAnother(bookingId, slot.appointment_date, slot.start_time)
            /\ RescheduleBooking(user, bookingId, slot.appointment_date,
                                 slot.start_time) )
          => (response' = "TIME_SLOT_CONFLICT" /\ bookings' = bookings)]_vars

\* C4: a reschedule by the booking's client of a pending or confirmed booking
\* onto an interval that intersects no other non-cancelled booking of the salon
\* on the new date succeeds and moves the booking there.
C4_RescheduleAcceptsFreeSlot ==
    [][\A user \in Users, bookingId \in BookingIds, slot \in RequestedSlots :
          ( /\ OwnReschedulable(user, bookingId)
            /\ ~OverlapsAnother(bookingId, slot.appointment_date, slot.start_time)
            /\ RescheduleBooking(user, bookingId, slot.appointment_date,
                                 slot.start_time) )
          => ( /\ response' = "rescheduled"
               /\ bookings'[bookingId].appointment_date = slot.appointment_date
               /\ bookings'[bookingId].start_time = slot.start_time )]_vars

\* The end time a createBooking request for `start_time` would store.
CandidateEnd(service_id, start_time) ==
    Minutes(EndTimeStr(start_time, Services[service_id].duration))

\* The latest calculator call was for the day the clock showed.
ForToday ==
    slotReq.appointmentDate # NoDate /\ slotReq.appointmentDate = slotNow.day

\* The least multiple of the slot interval that is not below x.
NextGridTime(x) ==
    CHOOSE m \in x .. (x + slotInterval - 1) : m % slotInterval = 0

\* The raised lower bound of a walk for today.
TodayBound ==
    Max(Minutes(slotReq.openTime), NextGridTime(slotNow.min - bookingBuffer))

\* Start times of the slots the latest call returned.
EmittedStarts == { Minutes(slots[k].start_time) : k \in 1 .. Len(slots) }

\* A candidate start intersects none of the bookings passed to the call.
FreeOfBookings(c) ==
    \A b \in slotReq.existingBookings :
        ~(c < Minutes(b.end_time)
            /\ Minutes(b.start_time) < c + slotReq.serviceDuration)

\* The candidates first, first + 15, ... up to close - duration.
GridFrom(first) ==
    { c \in first .. (Minutes(slotReq.closeTime) - slotReq.serviceDuration) :
        (c - first) % slotInterval = 0 }

\* The candidates the latest call walked over.
WalkedCandidates ==
    IF ForToday
    THEN (IF TodayBound >= Minutes(slotReq.closeTime) THEN {}
          ELSE GridFrom(TodayBound))
    ELSE GridFrom(Minutes(slotReq.openTime))

\* C5 (createBooking): a request that reaches the conflict query is answered
\* TIME_SLOT_CONFLICT iff some non-cancelled booking of the salon and date has
\* candidateStart < existingEnd and existingStart < candidateEnd.
C5_CreateConflictIff ==
    [][\A user \in Clients, salon_id \in SalonIds, service_id \in ServiceIds,
          slot \in RequestedSlots :
          ( /\ CreateLookup(salon_id, service_id) = "ok"
            /\ CreateBooking(user, salon_id, service_id, NoStaff,
                             slot.appointment_date, slot.start_time, "ok") )
          => ( response' = "TIME_SLOT_CONFLICT"
               <=> \E id \in Rows :
                     /\ bookings[id].salon_id = salon_id
                     /\ bookings[id].appointment_date = slot.appointment_date
                     /\ bookings[id].status # "cancelled"
                     /\ Minutes(slot.start_time) < Minutes(bookings[id].end_time)
                     /\ Minutes(bookings[id].start_time)
                            < CandidateEnd(service_id, slot.start_time) )]_vars

\* C5 (slot calculator): a walked candidate is left out of the result iff some
\* booking passed in has candidateStart < existingEnd and
\* existingStart < candidateEnd.
C5_SlotConflictIff ==
    slotReq.called =>
        \A c \in WalkedCandidates : (c \notin EmittedStarts) <=> ~FreeOfBookings(c)

\* C5: both conflict tests are the half-open overlap test, so a candidate that
\* only touches an existing booking is no conflict.
C5_HalfOpenConflictTest == []C5_SlotConflictIff /\ C5_CreateConflictIff

\* C5 witness: two live bookings of one salon and date touch end to start, and
\* the slot list holds a slot ending where a booking passed in starts.
C5_AdjacentAccepted ==
    /\ \E i \in Rows, j \in Rows :
          /\ i # j
          /\ bookings[i].salon_id = bookings[j].salon_id
          /\ bookings[i].appointment_date = bookings[j].appointment_date
          /\ bookings[i].status # "cancelled" /\ bookings[j].status # "cancelled"
          /\ bookings[i].end_time = bookings[j].start_time
    /\ slotReq.called
    /\ \E k \in 1 .. Len(slots), b \in slotReq.existingBookings :
          slots[k].end_time = b.start_time

\* C6: no slot the calculator returns intersects (half-open) a booking that
\* was passed to it.
C6_NoEmittedSlotOverlaps ==
    \A k \in 1 .. Len(slots), b \in slotReq.existingBookings :
        ~HalfOpenOverlap(Minutes(slots[k].start_time), Minutes(slots[k].end_time),
                         Minutes(b.start_time), Minutes(b.end_time))

\* C6 witness: 09:00-18:00, 30 minutes, one booking 10:00-10:30: the three
\* candidates that intersect it are missing from the 35.
C6_SlotsAroundBooking ==
    /\ slotReq.called
    /\ slotReq.openTime = <<9, 0>> /\ slotReq.closeTime = <<18, 0>>
    /\ slotReq.serviceDuration = 30
    /\ slotReq.existingBookings = {BookedA}
    /\ Len(slots) = 32

\* The result is exactly the free candidates of `grid`, earliest first, each
\* slot ending its duration after it starts.
ExactlyTheFree(grid) ==
    /\ EmittedStarts = { c \in grid : FreeOfBookings(c) }
    /\ \A k \in 1 .. Len(slots) :
          /\ slots[k].start_time = _minutesToTimeString(Minutes(slots[k].start_time))
          /\ Minutes(slots[k].end_time)
                = Minutes(slots[k].start_time) + slotReq.serviceDuration
          /\ k > 1 => Minutes(slots[k - 1].start_time) < Minutes(slots[k].start_time)

\* 09:00-18:00, 60 minutes, no bookings.
NineToSixHourLong ==
    /\ slotReq.called
    /\ slotReq.openTime = <<9, 0>> /\ slotReq.closeTime = <<18, 0>>
    /\ slotReq.serviceDuration = 60
    /\ slotReq.existingBookings = {}

\* n slots, the first 09:00-10:00 and the last 17:00-18:00.
NineToSixSlots(n) ==
    /\ Len(slots) = n
    /\ slots[1] = [start_time |-> <<9, 0>>, end_time |-> <<10, 0>>]
    /\ slots[Len(slots)] = [start_time |-> <<17, 0>>, end_time |-> <<18, 0>>]

\* C7 as claimed: the result is exactly the free candidates open, open + 15,
\* ... up to close - duration, in increasing order, each end = start +
\* duration; 09:00-18:00 with 60 minutes and no bookings gives 37 slots.
C7_WalkFromOpening ==
    slotReq.called =>
        /\ ExactlyTheFree(GridFrom(Minutes(slotReq.openTime)))
        /\ NineToSixHourLong => NineToSixSlots(37)

\* C7 as amended: the candidates start at open, or for a request for today at
\* max(open, ceil((now - 5) / 15) * 15) with an empty result when that is not
\* before close; 09:00-18:00 with 60 minutes and no bookings gives, for a date
\* other than today, the 33 slots from 09:00-10:00 to 17:00-18:00.
C7_WalkFromLowerBound ==
    slotReq.called =>
        /\ ExactlyTheFree(WalkedCandidates)
        /\ (NineToSixHourLong /\ ~ForToday) => NineToSixSlots(33)

\* C7 witness: the slots of 09:00-18:00, 60 minutes, no bookings, on a date
\* that is not today.
C7_NineToSixReturned == NineToSixHourLong /\ ~ForToday /\ NineToSixSlots(33)

\* C8 as claimed: with no bookings, a positive duration and
\* close - open >= duration the result holds at least one slot.
C8_AtLeastOneSlot ==
    ( /\ slotReq.called
      /\ slotReq.existingBookings = {}
      /\ slotReq.serviceDuration > 0
      /\ Minutes(slotReq.closeTime) - Minutes(slotReq.openTime)
            >= slotReq.serviceDuration )
    => Len(slots) >= 1

\* C8 as amended: the room is measured from the walk's lower bound, which for
\* a request for today is max(open, ceil((now - 5) / 15) * 15) and has to lie
\* before close.
C8_AtLeastOneSlotFromLowerBound ==
    ( /\ slotReq.called
      /\ slotReq.existingBookings = {}
      /\ slotReq.serviceDuration > 0 )
    => IF ForToday
       THEN ( /\ TodayBound < Minutes(slotReq.closeTime)
              /\ Minutes(slotReq.closeTime) - TodayBound
                    >= slotReq.serviceDuration )
            => Len(slots) >= 1
       ELSE Minutes(slotReq.closeTime) - Minutes(slotReq.openTime)
               >= slotReq.serviceDuration
            => Len(slots) >= 1

\* C8 witness: a request for today after opening, no bookings, and the
\* service still fits before closing.
C8_LateButFits ==
    /\ slotReq.called
    /\ slotReq.existingBookings = {}
    /\ ForToday
    /\ TodayBound > Minutes(slotReq.openTime)
    /\ slotReq.serviceDuration > 0
    /\ Len(slots) >= 1

\* C9: a call with the arguments of the call before it (a positive duration
\* among them) returns what that call returned.
C9_SameArgumentsSameOutput ==
    [][( /\ slotReq.called
         /\ slotReq.serviceDuration > 0
         /\ slotReq' = slotReq )
       => slots' = slots]_vars

\* C10: for a request for today no slot starts before
\* max(open, ceil((now - 5) / 15) * 15), the slots start on the 15-minute
\* grid from that bound, the bound itself is offered when it is free and the
\* service fits, and the result is empty when the bound is not before close.
C10_TodayLowerBound ==
    (slotReq.called /\ ForToday) =>
        /\ \A c \in EmittedStarts :
              c >= TodayBound /\ (c - TodayBound) % slotInterval = 0
        /\ TodayBound >= Minutes(slotReq.closeTime) => slots = << >>
        /\ ( /\ TodayBound < Minutes(slotReq.closeTime)
             /\ TodayBound + slotReq.serviceDuration <= Minutes(slotReq.closeTime)
             /\ FreeOfBookings(TodayBound) )
           => TodayBound \in EmittedStarts

\* C10 witness: at 10:06 a request for today with hours from 09:00 gets its
\* first slot at 10:15.
C10_FirstSlotAtBound ==
    /\ slotReq.called /\ ForToday
    /\ slotNow.min = 606
    /\ slotReq.openTime = <<9, 0>>
    /\ Len(slots) >= 1
    /\ slots[1].start_time = <<10, 15>>

\* The day's business hours of an existing salon give the calculator nothing
\* to walk: no entry, a closed day, or a bound that is absent or malformed.
NoUsableHours(salon_id, date) ==
    LET businessHours == Salons[salon_id].business_hours[days[date]]
    IN  \/ ~businessHours.present
        \/ businessHours.closed
        \/ businessHours.open.kind # "time"
        \/ businessHours.close.kind # "time"

\* C11: getAvailableSlots for an existing salon and service answers with a
\* successful empty slot list when the day's business hours are missing,
\* closed, or have an absent or malformed bound; it answers with an error only
\* when the salon or the service does not exist.
C11_EmptyListNeverError ==
    [][\A salon_id \in ListedSalonIds, service_id \in ServiceIds, date \in DOMAIN days :
          GetAvailableSlots(salon_id, service_id, date, NoStaff, "ok")
          => /\ ( /\ salon_id \in DOMAIN Salons
                  /\ service_id \in DOMAIN Services
                  /\ NoUsableHours(salon_id, date) )
                => (response' = "slots_listed" /\ slots' = << >>)
             /\ response' # "slots_listed"
                => (salon_id \notin DOMAIN Salons
                      \/ service_id \notin DOMAIN Services)]_vars

\* C12: the calculator returns no slot for a service duration of zero or less.
C12_NonPositiveDurationRejected ==
    (slotReq.called /\ slotReq.serviceDuration <= 0) => slots = << >>

\* The user is the booking's client and neither the owner nor on the staff of
\* its salon.
ClientOnly(user, bookingId) ==
    /\ bookingId \in Rows
    /\ bookings[bookingId].client_id = user
    /\ Salons[bookings[bookingId].salon_id].owner_id # user
    /\ user \notin Salons[bookings[bookingId].salon_id].staff

\* C13: updateBookingStatus asked by the booking's client, who is neither owner
\* nor staff of the salon, for a target status other than cancelled answers
\* 403 CLIENT_CAN_ONLY_CANCEL and leaves every booking as it was.
C13_ClientCanOnlyCancel ==
    [][\A user \in Users, bookingId \in BookingIds,
          status \in validStatuses \ {"cancelled"} :
          (ClientOnly(user, bookingId) /\ UpdateBookingStatus(user, bookingId, status))
          => (response' = "CLIENT_CAN_ONLY_CANCEL" /\ bookings' = bookings)]_vars

\* C13 witness: the client's request has been refused while a booking of
\* theirs is in the store.
C13_ClientRefused ==
    /\ response = "CLIENT_CAN_ONLY_CANCEL"
    /\ \E bookingId \in Rows : ClientOnly("alice", bookingId)

\* C14: a booking whose status is completed, cancelled or no_show keeps that
\* status through every status update, owner cancellation and reschedule.
C14_TerminalStatusesStay ==
    [][\A bookingId \in Rows :
          bookings[bookingId].status \in {"completed", "cancelled", "no_show"}
          => bookings'[bookingId].status = bookings[bookingId].status]_vars

\* The user is the owner or on the staff of the booking's salon, and the
\* booking is pending or confirmed.
SalonSideOnOpenBooking(user, bookingId) ==
    /\ bookingId \in Rows
    /\ bookings[bookingId].status \in {"pending", "confirmed"}
    /\ \/ Salons[bookings[bookingId].salon_id].owner_id = user
       \/ user \in Salons[bookings[bookingId].salon_id].staff

\* C15: for the owner or a staff member on a pending or confirmed booking,
\* updateBookingStatus changes the booking only towards confirmed, completed,
\* cancelled or no_show; asked for pending it answers with an error and
\* changes no booking.
C15_NoWayBackToPending ==
    [][\A user \in Users, bookingId \in BookingIds, status \in RequestedStatuses :
          ( /\ SalonSideOnOpenBooking(user, bookingId)
            /\ UpdateBookingStatus(user, bookingId, status) )
          => /\ bookings' # bookings
                => status \in {"confirmed", "completed", "cancelled", "no_show"}
             /\ status = "pending"
                => (response' # "status_updated" /\ bookings' = bookings)]_vars

\* C16: whenever a request moves a pending or confirmed booking to cancelled
\* (updateBookingStatus or cancelBookingAsSalonOwner), that request makes
\* exactly one waitlist dispatch, with the booking's salon, service, date and
\* start time, and makes it when the store already holds status cancelled.
C16_OneDispatchPerCancellation ==
    [][\A bookingId \in Rows :
          ( /\ bookings[bookingId].status \in {"pending", "confirmed"}
            /\ bookings'[bookingId].status = "cancelled" )
          => /\ Len(cancelEffects') = 1
             /\ cancelEffects'[1].salon_id = bookings[bookingId].salon_id
             /\ cancelEffects'[1].service_id = bookings[bookingId].service_id
             /\ cancelEffects'[1].appointment_date = bookings[bookingId].appointment_date
             /\ cancelEffects'[1].start_time = bookings[bookingId].start_time
             /\ cancelEffects'[1].stored_status = "cancelled"]_vars

\* C16 witness: the second booking, for date 2, has been cancelled through
\* updateBookingStatus and its slot was dispatched.
C16_SecondBookingDispatched ==
    /\ Len(bookings) = 2
    /\ bookings[1].status = "confirmed"
    /\ bookings[2].status = "cancelled"
    /\ response = "status_updated"
    /\ Len(cancelEffects) = 1
    /\ cancelEffects[1].appointment_date = bookings[2].appointment_date
    /\ bookings[2].appointment_date # bookings[1].appointment_date

\* C17: a request that persisted a cancellation answers with success and the
\* booking is cancelled, whether or not the notice or the waitlist dispatch
\* failed.
C17_SideEffectFailuresIsolated ==
    Len(cancelEffects) = 1
    => /\ response \in {"status_updated", "owner_cancelled"}
       /\ \E bookingId \in Rows :
             /\ bookings[bookingId].status = "cancelled"
             /\ bookings[bookingId].start_time = cancelEffects[1].start_time
             /\ bookings[bookingId].appointment_date = cancelEffects[1].appointment_date

\* C18: a successful reschedule leaves the number of bookings and every other
\* booking as they were; the rescheduled row keeps its id, client, salon and
\* service, takes the requested date and start time, and its status, pending
\* or confirmed before, becomes pending.
C18_RescheduleInPlace ==
    [][\A user \in Users, bookingId \in BookingIds, slot \in RequestedSlots :
          ( /\ response' = "rescheduled"
            /\ RescheduleBooking(user, bookingId, slot.appointment_date,
                                 slot.start_time) )
          => /\ DOMAIN bookings' = DOMAIN bookings
             /\ \A other \in Rows \ {bookingId} : bookings'[other] = bookings[other]
             /\ bookings'[bookingId].client_id = bookings[bookingId].client_id
             /\ bookings'[bookingId].salon_id = bookings[bookingId].salon_id
             /\ bookings'[bookingId].service_id = bookings[bookingId].service_id
             /\ bookings'[bookingId].appointment_date = slot.appointment_date
             /\ bookings'[bookingId].start_time = slot.start_time
             /\ bookings[bookingId].status \in {"pending", "confirmed"}
             /\ bookings'[bookingId].status = "pending"]_vars

\* C18 witness: of two bookings one has been rescheduled and is pending, the
\* other is still confirmed.
C18_RescheduledIsPending ==
    /\ response = "rescheduled"
    /\ Len(bookings) = 2
    /\ \E i \in Rows, j \in Rows :
          bookings[i].status = "pending" /\ bookings[j].status = "confirmed"

\* C19: rescheduleBooking answers BOOKING_NOT_FOUND for an unknown id,
\* INSUFFICIENT_PERMISSIONS when the caller is not the booking's client and
\* INVALID_STATUS when the booking is not pending or confirmed; whenever it
\* does not answer with success, TIME_SLOT_CONFLICT included, no booking
\* changes.
C19_RescheduleFailuresChangeNothing ==
    [][\A user \in Users, bookingId \in BookingIds, slot \in RequestedSlots :
          RescheduleBooking(user, bookingId, slot.appointment_date, slot.start_time)
          => /\ bookingId \notin Rows => response' = "BOOKING_NOT_FOUND"
             /\ (bookingId \in Rows /\ bookings[bookingId].client_id # user)
                => response' = "INSUFFICIENT_PERMISSIONS"
             /\ ( /\ bookingId \in Rows
                  /\ bookings[bookingId].client_id = user
                  /\ bookings[bookingId].status \notin {"pending", "confirmed"} )
                => response' = "INVALID_STATUS"
             /\ response' # "rescheduled" => bookings' = bookings]_vars

\* C19 witness: the client's reschedule of a cancelled booking has been
\* refused.
C19_CancelledNotRescheduled ==
    /\ response = "INVALID_STATUS"
    /\ \E bookingId \in Rows :
          bookings[bookingId].status = "cancelled"
          /\ bookings[bookingId].client_id \in Clients

\* a is 100 * sum / count rounded to the nearest integer, halves upwards.
IsRoundedMean(a, sum, count) ==
    2 * a * count - count <= 200 * sum /\ 200 * sum < 2 * a * count + count

\* C20: after a review create, update or soft delete that answered with
\* success, requests served one at a time, every salon's rating_count is the
\* number of its visible reviews and its rating_average their mean rounded to
\* two decimals, both 0 when it has none.
C20_AggregateMatchesVisibleReviews ==
    reviewResponse \in {"review_created", "review_updated", "review_deleted"}
    => \A salonId \in DOMAIN Salons :
          LET count == Cardinality(VisibleReviews(reviews, salonId))
              sum == SumOfRatings(reviews, salonId, Len(reviews))
          IN  /\ salonRating[salonId].rating_count = count
              /\ IF count = 0 THEN salonRating[salonId].rating_average = 0
                 ELSE IsRoundedMean(salonRating[salonId].rating_average, sum, count)

(***************************************************************************)
(* Review requests served concurrently                                     *)
(***************************************************************************)
\* Ratings written while requests overlap.
RacedRatings == { JsNumber(2), JsString(<< "5" >>) }

\* The salon's aggregates over the rows a select returned.
RatingOf(reviewCount, sum) ==
    [rating_average |-> averageRating(sum, reviewCount), rating_count |-> reviewCount]

\* A request enters _updateSalonRating(salonId) after its write.
EnterRecompute(p, salonId) ==
    recompute' = [recompute EXCEPT ![p] = [NotRecomputing EXCEPT !.pc = "select",
                                                                 !.salonId = salonId]]

\* createReview up to the await of _updateSalonRating: the checks and the insert.
InsertReview(p, clientId, salon_id, booking_id, rating) ==
    /\ recompute[p].pc = "idle"
    /\ CreateReviewRefusal(clientId, salon_id, booking_id, rating) = "ok"
    /\ Len(reviews) < MaxReviews
    /\ reviews' = Append(reviews,
           [client_id |-> clientId, salon_id |-> salon_id,
            booking_id |-> booking_id, rating |-> StoredRating(rating),
            is_visible |-> TRUE])
    /\ EnterRecompute(p, salon_id)
    /\ UNCHANGED << slotVars, storeVars, inflight, salonRating, reviewResponse, waitlist, services, platformVars >>

\* updateReview up to the await of _updateSalonRating.
UpdateReviewRow(p, clientId, reviewId, rating) ==
    /\ recompute[p].pc = "idle"
    /\ reviewId \in DOMAIN reviews
    /\ reviews[reviewId].client_id = clientId
    /\ ~(rating # NoRating /\ (JsLt(rating, 1) \/ JsGt(rating, 5)))
    /\ reviews' = IF rating = NoRating THEN reviews
                  ELSE [reviews EXCEPT ![reviewId].rating = StoredRating(rating)]
    /\ EnterRecompute(p, reviews[reviewId].salon_id)
    /\ UNCHANGED << slotVars, storeVars, inflight, salonRating, reviewResponse, waitlist, services, platformVars >>

\* deleteReview up to the await of _updateSalonRating.
HideReview(p, clientId, reviewId) ==
    /\ recompute[p].pc = "idle"
    /\ reviewId \in DOMAIN reviews
    /\ reviews[reviewId].client_id = clientId
    /\ reviews' = [reviews EXCEPT ![reviewId].is_visible = FALSE]
    /\ EnterRecompute(p, reviews[reviewId].salon_id)
    /\ UNCHANGED << slotVars, storeVars, inflight, salonRating, reviewResponse, waitlist, services, platformVars >>

\* The select of _updateSalonRating: the request keeps the count and the sum
\* of the ratings that were visible when the select ran.
SelectRatings(p) ==
    /\ recompute[p].pc = "select"
    /\ recompute' = [recompute EXCEPT
           ![p].pc = "update",
           ![p].reviewCount = Cardinality(VisibleReviews(reviews, recompute[p].salonId)),
           ![p].sum = SumOfRatings(reviews, recompute[p].salonId, Len(reviews))]
    /\ UNCHANGED << slotVars, storeVars, inflight, reviews, salonRating, reviewResponse, waitlist, services, platformVars >>

\* The update of _updateSalonRating, from what the select returned; the
\* handler then answers.
UpdateSalon(p) ==
    /\ recompute[p].pc = "update"
    /\ salonRating' = [salonRating EXCEPT ![recompute[p].salonId] =
                           RatingOf(recompute[p].reviewCount, recompute[p].sum)]
    /\ recompute' = [recompute EXCEPT ![p] = NotRecomputing]
    /\ reviewResponse' = "review_saved"
    /\ UNCHANGED << slotVars, storeVars, inflight, reviews, waitlist, services, platformVars >>

\* Review requests of alice for salon s1 that overlap; the store answers
\* every call.
NextRatingRace ==
    \/ \E p \in Procs, booking_id \in {1, NoBooking}, rating \in RacedRatings :
          InsertReview(p, "alice", "s1", booking_id, rating)
    \/ \E p \in Procs, reviewId \in ReviewIds, rating \in RacedRatings :
          UpdateReviewRow(p, "alice", reviewId, rating)
    \/ \E p \in Procs, reviewId \in ReviewIds : HideReview(p, "alice", reviewId)
    \/ \E p \in Procs : SelectRatings(p)
    \/ \E p \in Procs : UpdateSalon(p)

SpecRatingRace == InitReviews /\ [][NextRatingRace]_vars

\* No request is between its review write and the end of its recompute.
AllRecomputesFinished == \A p \in Procs : recompute[p].pc = "idle"

\* The salon's stored aggregates are those of its visible reviews.
AggregateIsExact(salonId) ==
    LET count == Cardinality(VisibleReviews(reviews, salonId))
        sum == SumOfRatings(reviews, salonId, Len(reviews))
    IN  /\ salonRating[salonId].rating_count = count
        /\ IF count = 0 THEN salonRating[salonId].rating_average = 0
           ELSE IsRoundedMean(salonRating[salonId].rating_average, sum, count)

\* C21: when review writes and their recomputes overlap for one salon, then
\* once every one of them has finished the salon's rating_average and
\* rating_count are the mean and the count over its visible reviews.
C21_SettledAggregateIsExact ==
    AllRecomputesFinished => \A salonId \in DOMAIN Salons : AggregateIsExact(salonId)

(***************************************************************************)
(* The recalculate-salon-ratings script                                    *)
(***************************************************************************)
\* What the script leaves in the salons table: the aggregates over the visible
\* reviews, except for the salons whose select or update failed.
RecalculatedRatings(rating, rows, failed) ==
    [salonId \in DOMAIN rating |->
        IF salonId \in failed THEN rating[salonId]
        ELSE RatingOf(Cardinality(VisibleReviews(rows, salonId)),
                      SumOfRatings(rows, salonId, Len(rows)))]

\* recalculateSalonRatings: one pass over every salon, no review written.
recalculateSalonRatings(failed) ==
    /\ salonRating' = RecalculatedRatings(salonRating, reviews, failed)
    /\ reviewResponse' = "ratings_recalculated"
    /\ UNCHANGED << slotVars, storeVars, inflight, reviews, recompute, waitlist, services, platformVars >>

RecalculateRequest == \E failed \in SUBSET DOMAIN Salons : recalculateSalonRatings(failed)

\* alice's review requests for salon s1 and the script, one at a time.
NextRecompute ==
    \/ \E booking_id \in BookingIds \cup {NoBooking}, rating \in RequestedRatings,
          store \in StoreOutcomes :
            CreateReview("alice", "s1", booking_id, rating, store)
    \/ \E reviewId \in ReviewIds, rating \in RequestedRatings \cup {NoRating},
          store \in StoreOutcomes :
            UpdateReview("alice", reviewId, rating, store)
    \/ \E reviewId \in ReviewIds, store \in StoreOutcomes :
          DeleteReview("alice", reviewId, store)
    \/ RecalculateRequest

SpecRecompute == InitReviews /\ [][NextRecompute]_vars

\* C22: whatever the salon's aggregates and reviews are, a recompute followed
\* by a second recompute with no review write in between (by a handler or by
\* the script, whatever the store answers the second time) leaves
\* rating_average and rating_count as the first recompute set them.
C22_RecomputeIsIdempotent ==
    \A salonId \in DOMAIN Salons :
        LET once == _updateSalonRating(salonRating, reviews, salonId, "ok")
        IN  /\ \A store \in StoreOutcomes :
                  _updateSalonRating(once, reviews, salonId, store) = once
            /\ \A failed \in SUBSET DOMAIN Salons :
                  RecalculatedRatings(once, reviews, failed)[salonId] = once[salonId]

\* C22 witness: the script has run over a salon with two visible reviews and
\* aggregates that a recompute leaves alone.
C22_RecalculatedTwoReviews ==
    /\ reviewResponse = "ratings_recalculated"
    /\ Cardinality(VisibleReviews(reviews, "s1")) = 2
    /\ salonRating["s1"].rating_count = 2
    /\ _updateSalonRating(salonRating, reviews, "s1", "ok") = salonRating

\* C23: every stored review has an integer rating between 1 and 5 (createReview
\* and updateReview refuse any other rating before they write).
C23_StoredRatingsInRange ==
    \A reviewId \in DOMAIN reviews : reviews[reviewId].rating \in 1 .. 5

(***************************************************************************)
(* Cancellations that feed the waitlist                                    *)
(***************************************************************************)
MaxWaitlist == 3

WaitlistClients == {"bob"}
\* An afternoon range, which the 10:00 slot is not in.
RequestedTimeRanges == { NoTimeRange, TimeRange(<<14, 0>>, <<16, 0>>) }

\* A client joins the waitlist of a salon's service for a date.
JoinWaitlist(clientId, businessId, serviceId, requestedDate, requestedTimeRange) ==
    /\ Len(waitlist) < MaxWaitlist
    /\ waitlist' = Append(waitlist, NewEntry(clientId, businessId, serviceId,
                                             requestedDate, requestedTimeRange))
    /\ UNCHANGED << slotVars, storeVars, inflight, reviewVars, services, platformVars >>

\* The client of an offer books the offered slot within the offer window:
\* the entry becomes booked when the reservation is created.
BookOfferedSlot(i) ==
    /\ i \in DOMAIN waitlist
    /\ waitlist[i].status = "offered"
    /\ ~TimeReached(clock, waitlist[i].offerExpiresAt)
    /\ LET entry == waitlist[i]
           endTimeStr == EndTimeStr(entry.offeredStartTime,
                                    services[entry.serviceId].duration)
       IN  /\ CreateConflicts(bookings, entry.businessId, entry.requestedDate,
                              entry.offeredStartTime, endTimeStr) = {}
           /\ Len(bookings) < MaxBookings
           /\ bookings' = Append(bookings,
                  NewBooking(entry.clientId, entry.businessId, entry.serviceId,
                             entry.requestedDate, entry.offeredStartTime, endTimeStr))
    /\ waitlist' = [waitlist EXCEPT ![i].status = "booked"]
    /\ UNCHANGED << slotVars, response, cancelEffects, inflight, reviewVars, services, platformVars >>

\* updateBookingStatus(cancelled) up to the await of the dispatch: the
\* checks and the update of the row.
PersistCancellation(p, user, bookingId) ==
    /\ p \notin DOMAIN inflight
    /\ bookingId \in Rows
    /\ LET booking == bookings[bookingId]
           isOwner == Salons[booking.salon_id].owner_id = user
           isClient == booking.client_id = user
           isStaff == ~isOwner /\ ~isClient /\ user \in Salons[booking.salon_id].staff
       IN  /\ StatusPermission(isOwner, isClient, isStaff, "cancelled") = "ok"
           /\ inflight' = [q \in DOMAIN inflight \cup {p} |->
                               IF q = p THEN booking ELSE inflight[q]]
    /\ bookings' = [bookings EXCEPT ![bookingId].status = "cancelled"]
    /\ UNCHANGED << slotVars, response, cancelEffects, reviewVars, waitlist, services, platformVars >>

\* The dispatch of that request, which ends it. What overlapping requests
\* answer is not recorded.
ProcessWaitlist(p) ==
    /\ p \in DOMAIN inflight
    /\ waitlist' = processWaitlistForCancelledBooking(waitlist, inflight[p].salon_id,
                       inflight[p].service_id, inflight[p].appointment_date,
                       inflight[p].start_time, clock)
    /\ inflight' = [q \in DOMAIN inflight \ {p} |-> inflight[q]]
    /\ UNCHANGED << slotVars, storeVars, reviewVars, services, platformVars >>

\* The dispatch of that request throws: the waitlist stays as it was.
ProcessWaitlistFails(p) ==
    /\ p \in DOMAIN inflight
    /\ inflight' = [q \in DOMAIN inflight \ {p} |-> inflight[q]]
    /\ UNCHANGED << slotVars, storeVars, reviewVars, waitlist, services, platformVars >>

\* A day passes on the server.
DayPasses ==
    /\ clock.day < MaxDay
    /\ clock' = [clock EXCEPT !.day = clock.day + 1]
    /\ UNCHANGED << slotReq, slots, slotNow, storeVars, inflight, reviewVars, waitlist, services, platformVars >>

\* Clients join the waitlist of s1's cut on date 1, alice books, bookings are cancelled
\* by requests that overlap, offers are taken up, and time passes.
NextWaitlist ==
    \/ \E clientId \in WaitlistClients, requestedTimeRange \in RequestedTimeRanges :
          JoinWaitlist(clientId, "s1", "cut", 1, requestedTimeRange)
    \/ CreateCutRequest
    \/ \E p \in Procs, user \in {"alice", "owner"}, bookingId \in BookingIds :
          PersistCancellation(p, user, bookingId)
    \/ \E p \in Procs : ProcessWaitlist(p)
    \/ \E p \in Procs : ProcessWaitlistFails(p)
    \/ \E i \in 1 .. MaxWaitlist : BookOfferedSlot(i)
    \/ DayPasses

SpecWaitlist == Init /\ [][NextWaitlist]_vars

\* Request p ends in this step.
Ends(p) == p \in DOMAIN inflight /\ p \notin DOMAIN inflight'

\* The waiting entries for the salon, service and date of a booking.
WaitingFor(booking) ==
    { i \in DOMAIN waitlist : /\ waitlist[i].status = "waiting"
                              /\ waitlist[i].businessId = booking.salon_id
                              /\ waitlist[i].serviceId = booking.service_id
                              /\ waitlist[i].requestedDate = booking.appointment_date }

\* Those of them whose preferred time range, if any, holds the booking's start.
EligibleFor(booking) ==
    { i \in WaitingFor(booking) :
        \/ ~waitlist[i].requestedTimeRange.given
        \/ /\ TimeLe(waitlist[i].requestedTimeRange.from, booking.start_time)
           /\ TimeLe(booking.start_time, waitlist[i].requestedTimeRange.to) }

\* The entries that hold an offer of the booking's slot, and those of them
\* whose offer window is not over.
OffersOf(booking) ==
    { i \in DOMAIN waitlist : /\ waitlist[i].status = "offered"
                              /\ waitlist[i].businessId = booking.salon_id
                              /\ waitlist[i].serviceId = booking.service_id
                              /\ waitlist[i].requestedDate = booking.appointment_date
                              /\ waitlist[i].offeredStartTime = booking.start_time }
OpenOffersOf(booking) ==
    { i \in OffersOf(booking) : ~TimeReached(clock, waitlist[i].offerExpiresAt) }

\* C24 as stated: when a dispatch finds several waiting entries for the freed
\* slot's salon, service and date, the one created first becomes offered and
\* the later ones stay waiting.
C24_OldestOfDateOffered ==
    [][\A p \in Procs :
          (Ends(p) /\ ProcessWaitlist(p) /\ Cardinality(WaitingFor(inflight[p])) > 1)
          => \A i \in WaitingFor(inflight[p]) :
                waitlist'[i].status =
                    IF \A j \in WaitingFor(inflight[p]) : i <= j THEN "offered"
                    ELSE "waiting"]_vars

\* C24 amended: when a dispatch finds no open offer of the freed slot, the
\* first created of the waiting entries that are eligible for it (same salon,
\* service and date, and a preferred time range, if any, that holds the freed
\* start time) becomes offered that slot, and every other waiting entry stays
\* waiting.
C24_OldestEligibleOffered ==
    [][\A p \in Procs :
          (Ends(p) /\ ProcessWaitlist(p) /\ OpenOffersOf(inflight[p]) = {})
          => \A i \in DOMAIN waitlist :
                waitlist[i].status = "waiting"
                => IF i \in EligibleFor(inflight[p])
                      /\ \A j \in EligibleFor(inflight[p]) : i <= j
                   THEN /\ waitlist'[i].status = "offered"
                        /\ waitlist'[i].offeredStartTime = inflight[p].start_time
                   ELSE waitlist'[i].status = "waiting"]_vars

\* C24 witness: of three entries for the date, the first wants the afternoon
\* and still waits, the second holds the offer of the 10:00 slot, the third
\* waits.
C24_SecondOfThreeOffered ==
    /\ Len(waitlist) = 3
    /\ waitlist[1].status = "waiting" /\ waitlist[1].requestedTimeRange.given
    /\ waitlist[2].status = "offered" /\ waitlist[2].offeredStartTime = <<10, 0>>
    /\ waitlist[3].status = "waiting" /\ ~waitlist[3].requestedTimeRange.given

C26_LapsedOfferExpiresAndNextIsOffered ==
    [][/\ \A i \in DOMAIN waitlist :
             waitlist[i].status = "expired" => waitlist'[i].status = "expired"
       /\ \A p \in Procs :
             (Ends(p) /\ ProcessWaitlist(p))
             => /\ \A i \in OffersOf(inflight[p]) \ OpenOffersOf(inflight[p]) :
                      waitlist'[i].status = "expired"
                /\ ( /\ OffersOf(inflight[p]) # {}
                     /\ OpenOffersOf(inflight[p]) = {} )
                   => \A i \in EligibleFor(inflight[p]) :
                         (\A j \in EligibleFor(inflight[p]) : i <= j)
                         => waitlist'[i].status = "offered"]_vars

\* C26 witness: the first entry's offer has expired and the second entry
\* holds the offer of the same slot.
C26_ExpiredThenNextOffered ==
    /\ Len(waitlist) >= 2
    /\ waitlist[1].status = "expired"
    /\ waitlist[2].status = "offered"
    /\ waitlist[2].offeredStartTime = waitlist[1].offeredStartTime

(***************************************************************************)
(* serviceController.updateService and bookings late in the day            *)
(***************************************************************************)
\* The durations a salon sets, in minutes.
ServiceDurations == {15, 30}
\* Start times asked for: in the morning and ten minutes before midnight.
LateStarts == { <<10, 0>>, <<23, 50>> }

\* updateService for the caller's salon (req.user.salon_id), with a duration
\* in the body: the row is updated only if the service is that salon's.
updateService(salonId, serviceId, duration) ==
    /\ IF serviceId \notin DOMAIN services
       THEN /\ response' = "SERVICE_NOT_FOUND"
            /\ UNCHANGED services
       ELSE IF services[serviceId].salon_id # salonId
       THEN /\ response' = "SERVICE_NOT_FOUND"
            /\ UNCHANGED services
       ELSE /\ services' = [services EXCEPT
                               ![serviceId].duration = parseInt(JsNumber(duration)).value]
            /\ response' = "service_updated"
    /\ cancelEffects' = << >>
    /\ UNCHANGED << slotVars, bookings, inflight, reviewVars, waitlist, platformVars >>

UpdateServiceRequest ==
    \E salonId \in DOMAIN Salons, serviceId \in ServiceIds, duration \in ServiceDurations :
        updateService(salonId, serviceId, duration)

\* alice books and reschedules at s1, at any hour, while the salons change the
\* durations of their services.
NextDurations ==
    \/ \E service_id \in ServiceIds, appointment_date \in DOMAIN days,
          start_time \in LateStarts :
            CreateBooking("alice", "s1", service_id, NoStaff, appointment_date, start_time, "ok")
    \/ \E bookingId \in BookingIds, appointment_date \in DOMAIN days,
          start_time \in LateStarts :
            RescheduleBooking("alice", bookingId, appointment_date, start_time)
    \/ UpdateServiceRequest

SpecDurations == Init /\ [][NextDurations]_vars

\* The length of a booking on the clock, from its start round to its end.
Length(booking) ==
    (Minutes(booking.end_time) - Minutes(booking.start_time)) % MinutesPerDay

\* C27: a reschedule leaves the length of the booking as it was, whatever has
\* happened to the duration of its service since the booking was created.
C27_RescheduleKeepsLength ==
    [][response' = "rescheduled"
       => \A id \in DOMAIN bookings :
             bookings'[id] # bookings[id]
             => Length(bookings'[id]) = Length(bookings[id])]_vars

\* C28: the row that createBooking inserts or rescheduleBooking updates has
\* end_time = start_time + the service's duration, later than start_time on
\* the same day.
C28_EndIsStartPlusDuration ==
    [][response' \in {"created", "rescheduled"}
       => \A id \in DOMAIN bookings' :
             (id \notin DOMAIN bookings \/ bookings'[id] # bookings[id])
             => /\ Minutes(bookings'[id].end_time)
                     = Minutes(bookings'[id].start_time)
                         + services[bookings'[id].service_id].duration
                /\ Minutes(bookings'[id].end_time) > Minutes(bookings'[id].start_time)]_vars

\* The salon is open on the weekday of the date, with hours that hold
\* [start, start + duration).
WithinBusinessHours(salon_id, appointment_date, start_time, duration) ==
    LET businessHours == Salons[salon_id].business_hours[days[appointment_date]]
    IN  /\ businessHours.present
        /\ ~businessHours.closed
        /\ businessHours.open.kind = "time"
        /\ businessHours.close.kind = "time"
        /\ Minutes(businessHours.open.hm) <= Minutes(start_time)
        /\ Minutes(start_time) + duration <= Minutes(businessHours.close.hm)

\* C29: the booking createBooking inserts lies within the salon's business
\* hours for the weekday of its date.
C29_CreatedWithinBusinessHours ==
    [][(response' = "created" /\ Len(bookings') > Len(bookings))
       => LET booking == bookings'[Len(bookings')]
          IN  WithinBusinessHours(booking.salon_id, booking.appointment_date,
                                  booking.start_time,
                                  services[booking.service_id].duration)]_vars

(***************************************************************************)
(* Bookings with a staff member                                            *)
(***************************************************************************)
StaffIds == {"st1", "st2"}
StaffStarts == { <<10, 0>>, <<10, 15>> }

\* alice books a cut at s1 on date 1 with or without a staff member, slots
\* are listed for a staff member or for the salon, the owner cancels.
NextStaff ==
    \/ \E staff_id \in StaffIds \cup {NoStaff}, start_time \in StaffStarts :
          CreateBooking("alice", "s1", "cut", staff_id, 1, start_time, "ok")
    \/ \E staff_id \in StaffIds \cup {NoStaff} :
          GetAvailableSlots("s1", "cut", 1, staff_id, "ok")
    \/ \E bookingId \in BookingIds : CancelBookingAsSalonOwner("owner", bookingId)

SpecStaff == Init /\ [][NextStaff]_vars

\* The start times getAvailableSlots lists now for a salon whose hours of the
\* day are well formed.
ListedStarts(salon_id, service_id, date, staff_id) ==
    LET businessHours == Salons[salon_id].business_hours[days[date]]
        listed == _calculateAvailableSlots(businessHours.open.hm, businessHours.close.hm,
                      services[service_id].duration,
                      ExistingBookings(bookings, salon_id, date, staff_id), date, clock)
    IN  { listed[i].start_time : i \in DOMAIN listed }

\* The non-cancelled bookings in the scope of a request (the staff member's,
\* or the salon's when no staff is given) that overlap [start, end).
OverlappingInScope(salon_id, staff_id, date, start_time, duration) ==
    { id \in Rows :
        /\ bookings[id].salon_id = salon_id
        /\ bookings[id].appointment_date = date
        /\ bookings[id].status # "cancelled"
        /\ (staff_id # NoStaff => bookings[id].staff_id = staff_id)
        /\ HalfOpenOverlap(Minutes(start_time), Minutes(start_time) + duration,
                           Minutes(bookings[id].start_time),
                           Minutes(bookings[id].end_time)) }

\* C30: createBooking answers TIME_SLOT_CONFLICT only when a non-cancelled
\* booking of the same staff member (of the salon, when no staff is given)
\* overlaps the request, and it accepts every start time that
\* getAvailableSlots lists at that moment for the same salon, service, date
\* and staff member.
C30_ConflictScopedToStaff ==
    [][\A staff_id \in StaffIds \cup {NoStaff}, start_time \in StaffStarts :
          CreateBooking("alice", "s1", "cut", staff_id, 1, start_time, "ok")
          => /\ response' = "TIME_SLOT_CONFLICT"
                => OverlappingInScope("s1", staff_id, 1, start_time,
                                      services["cut"].duration) # {}
             /\ start_time \in ListedStarts("s1", "cut", 1, staff_id)
                => response' = "created"]_vars

(***************************************************************************)
(* The store failing to answer the select of existing bookings             *)
(***************************************************************************)
\* Bookings made and free slots listed at salon s1 while the select of the
\* existing bookings either answers or fails.
NextStoreFailure ==
    \/ \E service_id \in DOMAIN Services, slot \in RequestedSlots, store \in ReadOutcomes :
          CreateBooking("alice", "s1", service_id, NoStaff, slot.appointment_date,
                        slot.start_time, store)
    \/ \E service_id \in DOMAIN Services, date \in DOMAIN days, store \in ReadOutcomes :
          GetAvailableSlots("s1", service_id, date, NoStaff, store)

SpecStoreFailure == Init /\ [][NextStoreFailure]_vars

\* C31: a store failure while reading the existing bookings is surfaced as an
\* error: getAvailableSlots whose bookings query failed does not answer with
\* slots the calculator computed from no bookings, and createBooking whose
\* conflict query failed inserts no booking.
C31_ReadFailureSurfaced ==
    [][ /\ \A service_id \in DOMAIN Services, date \in DOMAIN days :
              GetAvailableSlots("s1", service_id, date, NoStaff, "read_failed")
              => ~(response' = "slots_listed" /\ slotReq'.called)
        /\ \A service_id \in DOMAIN Services, slot \in RequestedSlots :
              CreateBooking("alice", "s1", service_id, NoStaff, slot.appointment_date,
                            slot.start_time, "read_failed")
              => /\ bookings' = bookings
                 /\ response' # "created" ]_vars

(***************************************************************************)
(* The two time conversions over the characters of "HH:MM"                 *)
(***************************************************************************)
\* Number.prototype.toString of a non-negative integer.
RECURSIVE toString(_)
toString(n) ==
    IF n < 10 THEN << Digits[n + 1] >>
    ELSE toString(n \div 10) \o << Digits[(n % 10) + 1] >>

\* The text left as it is.
padStartNothing(chars, targetLength, fill) == chars

\* String.prototype.padStart with a one-character fill.
padStart(chars, targetLength, fill) ==
    [i \in 1 .. Max(targetLength, Len(chars)) |->
        IF i <= targetLength - Len(chars) THEN fill
        ELSE chars[i - Max(targetLength - Len(chars), 0)]]

\* String.prototype.split at a one-character separator.
RECURSIVE split(_, _)
split(chars, sep) ==
    IF \A i \in DOMAIN chars : chars[i] # sep THEN << chars >>
    ELSE LET at == CHOOSE i \in DOMAIN chars :
                       chars[i] = sep /\ \A j \in 1 .. (i - 1) : chars[j] # sep
         IN  << SubSeq(chars, 1, at - 1) >>
                 \o split(SubSeq(chars, at + 1, Len(chars)), sep)

\* _minutesToTimeString, character by character.
minutesToTime(minutes) ==
    padStart(toString(minutes \div MinutesPerHour), 2, "0")
        \o << ":" >>
        \o padStart(toString(JsRem(minutes, MinutesPerHour)), 2, "0")

\* _timeStringToMinutes, character by character: the first two parts of
\* split(':') through Number; a missing part is undefined and gives NaN.
timeToMinutes(timeStr) ==
    LET parts == split(timeStr, ":")
        hours == ToNumber(JsString(parts[1]))
        minutes == IF Len(parts) >= 2 THEN ToNumber(JsString(parts[2]))
                   ELSE NotANumber
    IN  IF hours.nan \/ minutes.nan THEN NotANumber
        ELSE Finite(hours.value * MinutesPerHour + minutes.value)

\* The minutes of a day, and the zero-padded "HH:MM" strings of a day.
DayMinutes == 0 .. (MinutesPerDay - 1)
TimeStrings ==
    { << Digits[(h \div 10) + 1], Digits[(h % 10) + 1], ":",
         Digits[(m \div 10) + 1], Digits[(m % 10) + 1] >> :
      h \in 0 .. ((MinutesPerDay \div MinutesPerHour) - 1),
      m \in 0 .. (MinutesPerHour - 1) }

AsMinutes(n) == [of |-> "minutes", minutes |-> n, timeStr |-> << >>]
AsTime(chars) == [of |-> "time", minutes |-> 0, timeStr |-> chars]

\* A value of the day to be converted.
InitConversions ==
    /\ SlotInit
    /\ StoreInit
    /\ inflight = NoInflight
    /\ ReviewInit
    /\ CatalogInit
    /\ slotsCountByDate = NoCounts
    /\ SettingsInit
    /\ SecurityInit
    /\ conversion \in
          { [input |-> v, output |-> NoConversion, back |-> NoConversion] :
            v \in { AsMinutes(m) : m \in DayMinutes }
                     \cup { AsTime(t) : t \in TimeStrings } }

\* The conversion that takes the value.
Convert ==
    /\ conversion.output.of = "none"
    /\ IF conversion.input.of = "minutes"
       THEN conversion' = [conversion EXCEPT !.output =
                   AsTime(minutesToTime(conversion.input.minutes))]
       ELSE /\ ~timeToMinutes(conversion.input.timeStr).nan
            /\ conversion' = [conversion EXCEPT !.output =
                   AsMinutes(timeToMinutes(conversion.input.timeStr).value)]
    /\ UNCHANGED << slotVars, storeVars, inflight, reviewVars, waitlist, services,
                    slotsCountByDate, settingsVars, securityVars >>

\* The other conversion applied to what the first one returned.
ConvertBack ==
    /\ conversion.output.of # "none"
    /\ conversion.back.of = "none"
    /\ IF conversion.output.of = "time"
       THEN /\ ~timeToMinutes(conversion.output.timeStr).nan
            /\ conversion' = [conversion EXCEPT !.back =
                   AsMinutes(timeToMinutes(conversion.output.timeStr).value)]
       ELSE conversion' = [conversion EXCEPT !.back =
                   AsTime(minutesToTime(conversion.output.minutes))]
    /\ UNCHANGED << slotVars, storeVars, inflight, reviewVars, waitlist, services,
                    slotsCountByDate, settingsVars, securityVars >>

NextConversions ==
    \/ Convert
    \/ ConvertBack

SpecConversions == InitConversions /\ [][NextConversions]_vars

\* C32: the two conversions are inverses of each other on a day: converting
\* a minute count 0..1439 to "HH:MM" and back gives the count, and converting
\* a zero-padded "HH:MM" to minutes and back gives the same string.
C32_ConversionsAreInverses ==
    /\ conversion.back.of # "none" => conversion.back = conversion.input
    /\ conversion.output.of = "time" => conversion.output.timeStr \in TimeStrings
    /\ conversion.output.of = "minutes" => conversion.output.minutes \in DayMinutes

\* 09:05 went to 545 minutes and came back as 09:05.
C32_NineOhFiveAndBack ==
    /\ conversion.input = AsTime(<< "0", "9", ":", "0", "5" >>)
    /\ conversion.output = AsMinutes(545)
    /\ conversion.back = conversion.input

\* C33: over any sequence of updateBookingStatus and cancelBookingAsSalonOwner
\* requests a booking's slot is dispatched to the waitlist at most once: a
\* request on a booking that is already cancelled dispatches nothing.
C33_CancelledNotDispatchedAgain ==
    [][\A user \in Users, bookingId \in Rows, status \in RequestedStatuses :
          ( /\ bookings[bookingId].status = "cancelled"
            /\ \/ UpdateBookingStatus(user, bookingId, status)
               \/ CancelBookingAsSalonOwner(user, bookingId) )
          => cancelEffects' = << >>]_vars

(***************************************************************************)
(* Requests of a user who has nothing to do with the booking               *)
(***************************************************************************)
\* alice books cuts at s1, bob waits for one on date 1, eve sends every
\* mutating request, and the client and the owner cancel.
NextOutsider ==
    \/ CreateCutRequest
    \/ JoinWaitlist("bob", "s1", "cut", 1, NoTimeRange)
    \/ \E user \in {"eve", "alice"}, bookingId \in BookingIds,
          status \in {"cancelled", "archived"} :
            UpdateBookingStatus(user, bookingId, status)
    \/ \E bookingId \in BookingIds, slot \in RequestedSlots :
            RescheduleBooking("eve", bookingId, slot.appointment_date, slot.start_time)
    \/ \E user \in {"eve", "owner"}, bookingId \in BookingIds :
            CancelBookingAsSalonOwner(user, bookingId)

SpecOutsider == Init /\ [][NextOutsider]_vars

\* Neither the booking's client nor the owner or a staff member of its salon.
Outsider(user, bookingId) ==
    /\ bookingId \in Rows
    /\ bookings[bookingId].client_id # user
    /\ Salons[bookings[bookingId].salon_id].owner_id # user
    /\ user \notin Salons[bookings[bookingId].salon_id].staff

CountLookup(salon_id, service_id) ==
    IF service_id \notin DOMAIN services THEN "SERVICE_NOT_FOUND"
    ELSE IF services[service_id].salon_id # salon_id THEN "SERVICE_NOT_FOUND"
    ELSE IF salon_id \notin DOMAIN Salons THEN "SALON_NOT_FOUND"
    ELSE "ok"

\* The dates the loop of getAvailableSlotsCount visits.
DatesOfRange(start_date, end_date) ==
    { d \in DOMAIN days : start_date <= d /\ d <= end_date }

\* A date of the range whose business hours make the calculator throw.
CountThrows(salon_id, start_date, end_date) ==
    \E d \in DatesOfRange(start_date, end_date) :
       LET businessHours == Salons[salon_id].business_hours[days[d]]
       IN  /\ businessHours.present /\ ~businessHours.closed
           /\ businessHours.open.kind # "undefined"
           /\ businessHours.close.kind # "undefined"
           /\ SplitThrows(businessHours.open, businessHours.close)

\* slots_count_by_date: for each date of the range the length of what the
\* calculator returns for the date's bookings. The calculator is called with
\* four arguments, so its appointmentDate is null.
SlotsCountByDate(salon_id, service_id, start_date, end_date, staff_id) ==
    [d \in DatesOfRange(start_date, end_date) |->
        LET businessHours == Salons[salon_id].business_hours[days[d]]
            openTime == businessHours.open
            closeTime == businessHours.close
        IN  IF ~businessHours.present \/ businessHours.closed THEN 0
            ELSE IF openTime.kind = "undefined" \/ closeTime.kind = "undefined" THEN 0
            ELSE IF InvalidTimeFormat(openTime, closeTime) THEN 0
            ELSE Len(_calculateAvailableSlots(openTime.hm, closeTime.hm,
                         services[service_id].duration,
                         ExistingBookings(bookings, salon_id, d, staff_id),
                         NoDate, clock))]

GetAvailableSlotsCount(salon_id, service_id, start_date, end_date, staff_id) ==
    /\ IF CountLookup(salon_id, service_id) # "ok"
       THEN /\ response' = CountLookup(salon_id, service_id)
            /\ UNCHANGED slotsCountByDate
       ELSE IF CountThrows(salon_id, start_date, end_date)
       THEN /\ response' = "SLOTS_COUNT_FETCH_FAILED"
            /\ UNCHANGED slotsCountByDate
       ELSE /\ response' = "slots_counted"
            /\ slotsCountByDate' = SlotsCountByDate(salon_id, service_id, start_date,
                                                    end_date, staff_id)
    /\ cancelEffects' = << >>
    /\ UNCHANGED << slotVars, bookings, inflight, reviewVars, waitlist, services, conversion, settingsVars, securityVars >>

\* alice books cuts at s1, time passes, and the free slots are listed and
\* counted.
NextCount ==
    \/ \E slot \in RequestedSlots :
          CreateBooking("alice", "s1", "cut", NoStaff, slot.appointment_date,
                        slot.start_time, "ok")
    \/ Tick
    \/ \E date \in DOMAIN days :
          GetAvailableSlots("s1", "cut", date, NoStaff, "ok")
    \/ \E salon_id \in {"s1", "s4"}, service_id \in {"cut", "gone"},
          start_date \in DOMAIN days, end_date \in DOMAIN days :
          GetAvailableSlotsCount(salon_id, service_id, start_date, end_date, NoStaff)

SpecCount == Init /\ [][NextCount]_vars

\* C35: for the same salon, service, staff filter and bookings, and at the
\* same time, the count getAvailableSlotsCount reports for a date is the
\* number of slots getAvailableSlots returns for it, today included.
C35_CountIsNumberOfListedSlots ==
    [][\A salon_id \in DOMAIN Salons, service_id \in DOMAIN Services,
          date \in DOMAIN days :
          ( /\ response' = "slots_listed"
            /\ CountLookup(salon_id, service_id) = "ok"
            /\ ~CountThrows(salon_id, date, date)
            /\ GetAvailableSlots(salon_id, service_id, date, NoStaff, "ok") )
          => SlotsCountByDate(salon_id, service_id, date, date, NoStaff)[date]
                = Len(slots')]_vars

(***************************************************************************)
(* createReview requests served concurrently: the handler awaits the store *)
(* between its select of an existing review and its insert.                *)
(***************************************************************************)
\* createReview up to the insert: the validation, the booking lookup and the
\* select of a review with the booking's id.
ReceiveReview(p, clientId, salon_id, booking_id, rating) ==
    /\ p \notin DOMAIN inflight
    /\ LET refusal == CreateReviewRefusal(clientId, salon_id, booking_id, rating)
       IN  IF refusal # "ok"
           THEN /\ reviewResponse' = refusal
                /\ UNCHANGED inflight
           ELSE /\ inflight' = [q \in DOMAIN inflight \cup {p} |->
                                   IF q = p
                                   THEN [client_id |-> clientId, salon_id |-> salon_id,
                                         booking_id |-> booking_id, rating |-> rating]
                                   ELSE inflight[q]]
                /\ UNCHANGED reviewResponse
    /\ UNCHANGED << slotVars, storeVars, reviews, salonRating, recompute, waitlist, services, platformVars >>

\* The insert and what follows it. Whether the table refuses a second row
\* with the same booking_id is not in the code: the insert either writes the
\* row or comes back with an error.
InsertReviewRow(p, store) ==
    /\ p \in DOMAIN inflight
    /\ IF store = "write_failed" THEN RejectReview("REVIEW_CREATION_FAILED")
       ELSE /\ Len(reviews) < MaxReviews
            /\ reviews' = Append(reviews,
                   [client_id |-> inflight[p].client_id,
                    salon_id |-> inflight[p].salon_id,
                    booking_id |-> inflight[p].booking_id,
                    rating |-> StoredRating(inflight[p].rating),
                    is_visible |-> TRUE])
            /\ salonRating' = _updateSalonRating(salonRating, reviews',
                                                 inflight[p].salon_id, store)
            /\ reviewResponse' = "review_created"
    /\ inflight' = [q \in DOMAIN inflight \ {p} |-> inflight[q]]
    /\ UNCHANGED << slotVars, storeVars, recompute, waitlist, services, platformVars >>

\* alice's reviews of salon s1, with and without her completed booking.
NextReviewRace ==
    \/ \E p \in Procs, booking_id \in {1, NoBooking}, rating \in RacedRatings :
          ReceiveReview(p, "alice", "s1", booking_id, rating)
    \/ \E p \in Procs, store \in {"ok", "write_failed"} : InsertReviewRow(p, store)

SpecReviewRace == InitReviews /\ [][NextReviewRace]_vars

\* A review of the booking is in the table.
ReviewedBooking(booking_id) ==
    /\ booking_id # NoBooking
    /\ \E r \in DOMAIN reviews : reviews[r].booking_id = booking_id

\* C36: at most one review exists per booking id, also when two createReview
\* requests for one booking interleave their existence check and their
\* insert: the request that comes second is answered REVIEW_ALREADY_EXISTS.
C36_OneReviewPerBooking ==
    [][ /\ \A r1 \in DOMAIN reviews', r2 \in DOMAIN reviews' :
              ( /\ reviews'[r1].booking_id # NoBooking
                /\ reviews'[r1].booking_id = reviews'[r2].booking_id )
              => r1 = r2
        /\ \A p \in DOMAIN inflight, store \in {"ok", "write_failed"} :
              ( /\ ReviewedBooking(inflight[p].booking_id)
                /\ InsertReviewRow(p, store) )
              => reviewResponse' = "REVIEW_ALREADY_EXISTS" ]_vars

(***************************************************************************)
(* supabaseService.updateUserSettings, one store call at a time            *)
(***************************************************************************)
MaxSettingsCalls == 3

\* What .single() makes of an update that matched n rows: the row, or
\* PGRST116 when there is none or more than one.
SingleRow(n) == IF n = 1 THEN "ok" ELSE "PGRST116"

\* How the store answers an update or an insert: as the table is, or with
\* another error.
SettingsAnswers == {"answers", "error"}

\* The controller calls updateUserSettings(userId, updates).
CallUpdateUserSettings(p, userId) ==
    /\ settingsCall[p].pc \in {"idle", "returned", "threw"}
    /\ settingsCall' = [settingsCall EXCEPT ![p] =
                           [NoSettingsCall EXCEPT !.pc = "update", !.userId = userId]]
    /\ UNCHANGED << slotVars, storeVars, inflight, reviewVars, waitlist, services,
                    conversion, slotsCountByDate, settingsRows, securityVars >>

\* The update ... .eq('user_id', userId).select().single() and the branch on
\* its error: PGRST116 goes on to createUserSettings, any other error throws
\* DATABASE_ERROR, no error returns the row.
UpdateSettingsRow(p, answer) ==
    /\ settingsCall[p].pc = "update"
    /\ settingsCall[p].updates < MaxSettingsCalls
    /\ LET result == IF answer = "error" THEN "error"
                     ELSE SingleRow(settingsRows[settingsCall[p].userId])
       IN  settingsCall' = [settingsCall EXCEPT
               ![p].updates = settingsCall[p].updates + 1,
               ![p].pc = IF result = "ok" THEN "returned"
                         ELSE IF result = "PGRST116" THEN "create"
                         ELSE "threw"]
    /\ UNCHANGED << slotVars, storeVars, inflight, reviewVars, waitlist, services,
                    conversion, slotsCountByDate, settingsRows, securityVars >>

\* createUserSettings inside updateUserSettings: the insert of the default
\* settings; on an error it throws DATABASE_ERROR, otherwise
\* updateUserSettings calls itself.
CreateSettingsRow(p, answer) ==
    /\ settingsCall[p].pc = "create"
    /\ settingsRows[settingsCall[p].userId] < MaxSettingsCalls
    /\ IF answer = "error"
       THEN /\ settingsCall' = [settingsCall EXCEPT
                    ![p].creates = settingsCall[p].creates + 1,
                    ![p].pc = "threw"]
            /\ UNCHANGED settingsRows
       ELSE /\ settingsCall' = [settingsCall EXCEPT
                    ![p].creates = settingsCall[p].creates + 1,
                    ![p].pc = "update"]
            /\ settingsRows' = [settingsRows EXCEPT ![settingsCall[p].userId] =
                                   settingsRows[settingsCall[p].userId] + 1]
    /\ UNCHANGED << slotVars, storeVars, inflight, reviewVars, waitlist, services,
                    conversion, slotsCountByDate, securityVars >>

\* Requests saving the settings of alice and eve, which may overlap.
NextSettings ==
    \/ \E p \in Procs, userId \in {"alice", "eve"} : CallUpdateUserSettings(p, userId)
    \/ \E p \in Procs, answer \in SettingsAnswers : UpdateSettingsRow(p, answer)
    \/ \E p \in Procs, answer \in SettingsAnswers : CreateSettingsRow(p, answer)

SpecSettings == Init /\ [][NextSettings]_vars

\* C37: updateUserSettings terminates whatever the store does: within one
\* call it creates the settings at most once and sends the update at most
\* twice, and a second not-found ends the call with an error.
C37_CreateOnceRetryOnce ==
    \A p \in Procs :
       /\ settingsCall[p].creates <= 1
       /\ settingsCall[p].updates <= 2
       /\ settingsCall[p].updates = 2 => settingsCall[p].pc \in {"returned", "threw"}

(***************************************************************************)
(* Security middleware: account lockout                                    *)
(***************************************************************************)
\* 15 * 60 * 1000 and 30 * 60 * 1000 ms, in minutes, and the number of
\* failed attempts that locks the account.
attemptWindow == 15
lockoutDuration == 30
lockoutThreshold == 5

MaxAuthMinute == 40
MaxAttempts == 6

\* Date.now(), in minutes.
DateNow == clock.day * MinutesPerDay + clock.min

\* req.body.email left out.
NoEmail == ""
Emails == {"alice@example.com"}

\* Date.now() > attempts.resetTime
WindowOver(now, resetTime) == now > resetTime

\* The lockout is over only after its end.
LockedUntilEnd(now, until) == now <= until

\* Date.now() < lockout.until
Locked(now, until) == now < until

\* A fresh entry of loginAttempts or bruteForceStore.
FreshAttempts(now) == [count |-> 0, resetTime |-> now + attemptWindow]

\* The entry a middleware works on: the stored one, or a fresh one, started
\* again when its window is over.
CurrentAttempts(store, key, now) ==
    LET attempts == IF key \in DOMAIN store THEN store[key] ELSE FreshAttempts(now)
    IN  IF WindowOver(now, attempts.resetTime) THEN FreshAttempts(now) ELSE attempts

\* Map.prototype.set and Map.prototype.delete.
MapSet(store, key, value) ==
    [k \in DOMAIN store \cup {key} |-> IF k = key THEN value ELSE store[k]]
MapDelete(store, key) == [k \in DOMAIN store \ {key} |-> store[k]]

accountLockout(email) ==
    /\ IF email = NoEmail
       THEN /\ authResponse' = "next"
            /\ UNCHANGED accountLockouts
       ELSE IF email \in DOMAIN accountLockouts
       THEN IF Locked(DateNow, accountLockouts[email].until)
            THEN /\ authResponse' = "ACCOUNT_LOCKED"
                 /\ UNCHANGED accountLockouts
            ELSE /\ authResponse' = "next"
                 /\ accountLockouts' = MapDelete(accountLockouts, email)
       ELSE /\ authResponse' = "next"
            /\ UNCHANGED accountLockouts
    /\ UNCHANGED << slotVars, storeVars, inflight, reviewVars, waitlist, services,
                    conversion, slotsCountByDate, settingsVars, loginAttempts,
                    bruteForceStore >>

trackFailedAttempts(email) ==
    /\ IF email = NoEmail
       THEN /\ authResponse' = "next"
            /\ UNCHANGED << loginAttempts, accountLockouts >>
       ELSE LET attempts == CurrentAttempts(loginAttempts, email, DateNow)
                counted == [attempts EXCEPT !.count = attempts.count + 1]
            IN  /\ attempts.count < MaxAttempts
                /\ loginAttempts' = MapSet(loginAttempts, email, counted)
                /\ IF counted.count >= lockoutThreshold
                   THEN /\ accountLockouts' = MapSet(accountLockouts, email,
                               [until |-> DateNow + lockoutDuration,
                                attempts |-> counted.count])
                        /\ authResponse' = "ACCOUNT_LOCKED"
                   ELSE /\ authResponse' = "next"
                        /\ UNCHANGED accountLockouts
    /\ UNCHANGED << slotVars, storeVars, inflight, reviewVars, waitlist, services,
                    conversion, slotsCountByDate, settingsVars, bruteForceStore >>

resetFailedAttempts(email) ==
    /\ loginAttempts' = IF email # NoEmail THEN MapDelete(loginAttempts, email)
                        ELSE loginAttempts
    /\ authResponse' = "next"
    /\ UNCHANGED << slotVars, storeVars, inflight, reviewVars, waitlist, services,
                    conversion, slotsCountByDate, settingsVars, accountLockouts,
                    bruteForceStore >>

\* Minutes pass on the server.
MinutesPass ==
    /\ \E minutes \in {1, attemptWindow} :
          /\ clock.min + minutes <= MaxAuthMinute
          /\ clock' = [clock EXCEPT !.min = clock.min + minutes]
    /\ UNCHANGED << slotReq, slots, slotNow, storeVars, inflight, reviewVars, waitlist,
                    services, platformVars >>

\* Logins of one account, failed and successful, while time passes.
NextLockout ==
    \/ \E email \in Emails \cup {NoEmail} : accountLockout(email)
    \/ \E email \in Emails \cup {NoEmail} : trackFailedAttempts(email)
    \/ \E email \in Emails \cup {NoEmail} : resetFailedAttempts(email)
    \/ MinutesPass

SpecLockout == Init /\ [][NextLockout]_vars

\* The failed attempts counted for the email in the window that is open now:
\* those tracked since the window's first attempt, at most 15 minutes ago,
\* and since the last reset.
CountedInOpenWindow(email) ==
    IF email \notin DOMAIN loginAttempts THEN 0
    ELSE IF DateNow > loginAttempts[email].resetTime THEN 0
    ELSE loginAttempts[email].count

\* C38: for one email, a tracked attempt sets a lockout, which ends 30
\* minutes later, exactly when it brings the count of the open 15-minute
\* window to 5 or more, and nothing else sets or lifts one before its end;
\* accountLockout answers ACCOUNT_LOCKED at every time before the end of the
\* lockout and lets the request through at and after it.
C38_LockoutAfterFiveUntilExpiry ==
    [][\A email \in Emails :
          /\ trackFailedAttempts(email)
             => IF CountedInOpenWindow(email) + 1 >= 5
                THEN /\ email \in DOMAIN accountLockouts'
                     /\ accountLockouts'[email].until = DateNow + 30
                     /\ authResponse' = "ACCOUNT_LOCKED"
                ELSE /\ accountLockouts' = accountLockouts
                     /\ authResponse' = "next"
          /\ resetFailedAttempts(email)
             => /\ accountLockouts' = accountLockouts
                /\ CountedInOpenWindow(email)' = 0
          /\ accountLockout(email)
             => /\ authResponse' = "ACCOUNT_LOCKED"
                   <=> ( /\ email \in DOMAIN accountLockouts
                         /\ DateNow < accountLockouts[email].until )
                /\ authResponse' = "ACCOUNT_LOCKED" => accountLockouts' = accountLockouts
          /\ MinutesPass => accountLockouts' = accountLockouts ]_vars

\* C38 witness: five attempts locked the account, the 30 minutes went by and
\* accountLockout let a request through and dropped the lockout.
C38_LockedThenLetThrough ==
    /\ "alice@example.com" \in DOMAIN loginAttempts
    /\ loginAttempts["alice@example.com"].count = 5
    /\ DateNow >= loginAttempts["alice@example.com"].resetTime + 15
    /\ "alice@example.com" \notin DOMAIN accountLockouts
    /\ authResponse = "next"

(***************************************************************************)
(* Security middleware: brute force protection                             *)
(***************************************************************************)
bruteForceLimit == 10

\* req.ip of the requests.
Ips == {"10.0.0.1", "10.0.0.2"}

\* bruteForceProtection: the entry of the IP, started again when its window
\* is over, is compared with the limit and put back as it is.
bruteForceProtection(ip) ==
    /\ LET attempts == CurrentAttempts(bruteForceStore, ip, DateNow)
       IN  IF attempts.count >= bruteForceLimit
           THEN /\ authResponse' = "BRUTE_FORCE_DETECTED"
                /\ UNCHANGED bruteForceStore
           ELSE /\ bruteForceStore' = MapSet(bruteForceStore, ip, attempts)
                /\ authResponse' = "next"
    /\ UNCHANGED << slotVars, storeVars, inflight, reviewVars, waitlist, services,
                    conversion, slotsCountByDate, settingsVars, loginAttempts,
                    accountLockouts >>

\* Requests of two addresses while time passes.
NextBruteForce ==
    \/ \E ip \in Ips : bruteForceProtection(ip)
    \/ MinutesPass

SpecBruteForce == Init /\ [][NextBruteForce]_vars

\* The requests counted for the address in the window that is open now.
SeenInOpenWindow(ip) ==
    IF ip \notin DOMAIN bruteForceStore THEN 0
    ELSE IF DateNow > bruteForceStore[ip].resetTime THEN 0
    ELSE bruteForceStore[ip].count

\* C39: bruteForceProtection counts the requests of each IP address: a
\* request it lets through raises the count of the address's open 15-minute
\* window by one, a request of an address that was let through 10 times in
\* the window is answered BRUTE_FORCE_DETECTED, and the count starts from
\* zero again once the window is over.
C39_RequestsCountedPerIp ==
    [][\A ip \in Ips :
          bruteForceProtection(ip)
          => IF SeenInOpenWindow(ip) >= 10
             THEN authResponse' = "BRUTE_FORCE_DETECTED"
             ELSE /\ authResponse' = "next"
                  /\ bruteForceStore'[ip].count = SeenInOpenWindow(ip) + 1 ]_vars

=============================================================================
